---- MODULE Spec2Model ----
(***************************************************************************)
(* Model of paper_parser_extractor.py (LawRevsAnalytics): the per-document *)
(* stages that split a law-review article into main text and footnotes,    *)
(* reconcile footnote numbering, extract the acknowledgment, reflow the    *)
(* main text and cut start/mid/end excerpts.                               *)
(*                                                                         *)
(* A text is a sequence of tokens (strings).  In the character-level       *)
(* stages every token is one character; in the excerpt stage a token is    *)
(* either one whitespace character or one whole word, which is all that    *)
(* str.split can tell apart.                                               *)
(***************************************************************************)
EXTENDS Integers, Sequences, FiniteSets, TLC

VARIABLES
    paper,      \* the LRPaper record (the fields the stages read and write)
    files,      \* file name -> content, or NoFile
    log,        \* the entries appended to the log files, oldest first
    pc          \* the stage the document is at

vars == <<paper, files, log, pc>>

-----------------------------------------------------------------------------
(* Python values *)

\* None in a numeric field (word counts and footnote numbers are >= 0).
NoneNum == -1
\* None in a path or string field.
None == "None"
\* None in a text field.
NoneText == <<"None">>
\* A path whose file does not exist.
NoFile == <<"NoFile">>

Min(S) == CHOOSE x \in S : \A y \in S : x <= y
Max(S) == CHOOSE x \in S : \A y \in S : x >= y

-----------------------------------------------------------------------------
(* str methods *)

Digits == {"0", "1", "2", "3", "4", "5", "6", "7", "8", "9"}

\* str.isspace of one character.
IsSpace(c) == c \in {" ", "\n", "\t"}

IsDigit(c) == c \in Digits

DigitVal(c) ==
    CASE c = "0" -> 0 [] c = "1" -> 1 [] c = "2" -> 2 [] c = "3" -> 3
      [] c = "4" -> 4 [] c = "5" -> 5 [] c = "6" -> 6 [] c = "7" -> 7
      [] c = "8" -> 8 [] c = "9" -> 9

\* The number of leading whitespace characters of s.
LeadWs(s) ==
    CHOOSE k \in 0..Len(s) :
        /\ \A j \in 1..k : IsSpace(s[j])
        /\ k = Len(s) \/ ~IsSpace(s[k + 1])

\* The number of trailing whitespace characters of s.
TrailWs(s) ==
    CHOOSE k \in 0..Len(s) :
        /\ \A j \in (Len(s) - k + 1)..Len(s) : IsSpace(s[j])
        /\ k = Len(s) \/ ~IsSpace(s[Len(s) - k])

\* str.lstrip(), str.rstrip(), str.strip()
LStrip(s) == SubSeq(s, LeadWs(s) + 1, Len(s))
RStrip(s) == SubSeq(s, 1, Len(s) - TrailWs(s))
Strip(s) == RStrip(LStrip(s))

\* s[lo..hi] split on the separator sep, as str.split(sep) does: k separators
\* give k + 1 fields, empty fields included.  The range is halved so that
\* the evaluation depth stays logarithmic in the length of the text.
RECURSIVE SplitRange(_, _, _, _)
SplitRange(s, sep, lo, hi) ==
    IF lo > hi THEN << <<>> >>
    ELSE IF lo = hi THEN (IF s[lo] = sep THEN << <<>>, <<>> >> ELSE << <<s[lo]>> >>)
    ELSE LET m == (lo + hi) \div 2
             L == SplitRange(s, sep, lo, m)
             R == SplitRange(s, sep, m + 1, hi)
         IN  SubSeq(L, 1, Len(L) - 1) \o << L[Len(L)] \o R[1] >> \o Tail(R)

\* str.split(sep)
SplitOn(s, sep) == SplitRange(s, sep, 1, Len(s))

\* str.split(): the maximal runs of non-whitespace characters.
SplitWs(s) ==
    LET sp == [i \in 1..Len(s) |-> IF IsSpace(s[i]) THEN " " ELSE s[i]]
    IN  SelectSeq(SplitOn(sp, " "), LAMBDA f : f # <<>>)

\* sep.join(fields[lo..hi])
RECURSIVE JoinRange(_, _, _, _)
JoinRange(fields, sep, lo, hi) ==
    IF lo > hi THEN <<>>
    ELSE IF lo = hi THEN fields[lo]
    ELSE LET m == (lo + hi) \div 2
         IN  JoinRange(fields, sep, lo, m) \o <<sep>> \o JoinRange(fields, sep, m + 1, hi)

\* sep.join(fields)
Join(fields, sep) == JoinRange(fields, sep, 1, Len(fields))

\* "".join(parts[lo..hi])
RECURSIVE ConcatRange(_, _, _)
ConcatRange(parts, lo, hi) ==
    IF lo > hi THEN <<>>
    ELSE IF lo = hi THEN parts[lo]
    ELSE LET m == (lo + hi) \div 2
         IN  ConcatRange(parts, lo, m) \o ConcatRange(parts, m + 1, hi)

\* "".join(parts)
Concat(parts) == ConcatRange(parts, 1, Len(parts))

\* file.readlines(): the lines of s, each with its line break.
ReadLines(s) ==
    LET f == SplitOn(s, "\n")
        n == Len(f)
    IN  [i \in 1..(IF f[n] = <<>> THEN n - 1 ELSE n) |->
            IF i < n THEN Append(f[i], "\n") ELSE f[i]]

\* str.find(needle): the 0-based index of the first occurrence, or -1.
Find(hay, needle) ==
    LET at == {i \in 0..(Len(hay) - Len(needle)) :
                  SubSeq(hay, i + 1, i + Len(needle)) = needle}
    IN  IF at = {} THEN -1 ELSE Min(at)

\* count_words_in_file: len(content.split()), None when the file is missing.
count_words_in_file(fs, path) ==
    IF path = None \/ fs[path] = NoFile THEN NoneNum ELSE Len(SplitWs(fs[path]))

\* count_words_in_string: len(text.split()), None when there is no word.
count_words_in_string(text) ==
    LET n == Len(SplitWs(text)) IN IF n = 0 THEN NoneNum ELSE n

-----------------------------------------------------------------------------
(* log_error: one entry appended to a log file *)

log_error(lg, entry) == Append(lg, entry)

-----------------------------------------------------------------------------
(* clean_text *)

\* remove_edge_spaces: text.strip()
remove_edge_spaces(text) == Strip(text)

\* remove_empty_lines: re.sub(r'\n\s*\n', '\n', text).  At a line break the
\* greedy \s* runs over the whole whitespace run and backs up to the last
\* line break in it; the match is replaced by one line break and the scan
\* goes on after the match.
RECURSIVE RemoveEmptyLinesFrom(_, _)
RemoveEmptyLinesFrom(text, i) ==
    IF i > Len(text) THEN <<>>
    ELSE IF text[i] # "\n" THEN <<text[i]>> \o RemoveEmptyLinesFrom(text, i + 1)
    ELSE LET run == LeadWs(SubSeq(text, i + 1, Len(text)))
             nls == {k \in (i + 1)..(i + run) : text[k] = "\n"}
         IN  IF nls = {} THEN <<"\n">> \o RemoveEmptyLinesFrom(text, i + 1)
             ELSE <<"\n">> \o RemoveEmptyLinesFrom(text, Max(nls) + 1)

remove_empty_lines(text) == RemoveEmptyLinesFrom(text, 1)

\* clean_line_spaces: '\n'.join([line.strip() for line in text.split('\n')])
clean_line_spaces(text) ==
    LET lines == SplitOn(text, "\n")
    IN  Join([i \in 1..Len(lines) |-> Strip(lines[i])], "\n")

\* reduce_spaces: re.sub(r' +', ' ', text)
RECURSIVE ReduceSpacesFrom(_, _)
ReduceSpacesFrom(text, i) ==
    IF i > Len(text) THEN <<>>
    ELSE IF text[i] = " " /\ i > 1 /\ text[i - 1] = " " THEN ReduceSpacesFrom(text, i + 1)
    ELSE <<text[i]>> \o ReduceSpacesFrom(text, i + 1)

reduce_spaces(text) == ReduceSpacesFrom(text, 1)

clean_text(text) ==
    reduce_spaces(clean_line_spaces(remove_empty_lines(remove_edge_spaces(text))))

-----------------------------------------------------------------------------
(* Footnote Reconciler: extract_first_last_total_fns *)

\* The number of decimal digits of s from position i on.
DigitRun(s, i) ==
    CHOOSE k \in 0..(Len(s) - i + 1) :
        /\ \A j \in i..(i + k - 1) : IsDigit(s[j])
        /\ i + k > Len(s) \/ ~IsDigit(s[i + k])

\* int() of the digits s[i..i+n-1], n in 1..3.
IntOf(s, i, n) ==
    IF n = 1 THEN DigitVal(s[i])
    ELSE IF n = 2 THEN 10 * DigitVal(s[i]) + DigitVal(s[i + 1])
    ELSE 100 * DigitVal(s[i]) + 10 * DigitVal(s[i + 1]) + DigitVal(s[i + 2])

\* Where r'^\s*(\d{1,3}) ?\.' matches at the start of line: the position of
\* the period, or 0 when it does not match.  Every quantifier is greedy and
\* none can give a character back to what follows it, so the match is the
\* one scan: all whitespace, the digit run (1 to 3 digits), one optional
\* space, the period.
BlockPatternDot(line) ==
    LET w   == LeadWs(line)
        nd  == DigitRun(line, w + 1)
        a   == w + nd + 1
        dot == IF a <= Len(line) /\ line[a] = " " THEN a + 1 ELSE a
    IN  IF nd >= 1 /\ nd <= 3 /\ dot <= Len(line) /\ line[dot] = "." THEN dot ELSE 0

\* block_pattern.match(line) is not None
block_pattern_match(line) == BlockPatternDot(line) # 0

\* pattern.match(line) for r'^\s*(\d{1,3}) ?\.(.*)': group(1) as an integer
\* and group(0).strip(); (.*) runs to the end of the line, short of its
\* line break.
pattern_match(line) ==
    LET dot == BlockPatternDot(line)
        w   == LeadWs(line)
        nls == {k \in (dot + 1)..Len(line) : line[k] = "\n"}
        eol == IF nls = {} THEN Len(line) ELSE Min(nls) - 1
    IN  IF dot = 0 THEN [ok |-> FALSE, num |-> NoneNum, full |-> <<>>]
        ELSE [ok   |-> TRUE,
              num  |-> IntOf(line, w + 1, DigitRun(line, w + 1)),
              full |-> Strip(SubSeq(line, 1, eol))]

\* The list of (footnote_number, full_line) of the matching lines, in
\* stream order.
MatchesOf(fns_lines) ==
    LET all == [i \in 1..Len(fns_lines) |-> pattern_match(fns_lines[i])]
        hit == SelectSeq(all, LAMBDA m : m.ok)
    IN  [i \in 1..Len(hit) |-> <<hit[i].num, hit[i].full>>]

\* matches.sort(key=lambda x: x[0]): Python's sort is stable.
RECURSIVE SortByNumber(_)
\* A plausible slip: a sort that is not stable, a match going before the
\* earlier matches of its number.
SortByNumber_Unstable(ms) ==
    IF ms = <<>> THEN <<>>
    ELSE LET front == SortByNumber(SubSeq(ms, 1, Len(ms) - 1))
             m     == ms[Len(ms)]
             k     == Cardinality({i \in 1..Len(front) : front[i][1] < m[1]})
         IN  SubSeq(front, 1, k) \o <<m>> \o SubSeq(front, k + 1, Len(front))

SortByNumber(ms) ==
    IF ms = <<>> THEN <<>>
    ELSE LET front == SortByNumber(SubSeq(ms, 1, Len(ms) - 1))
             m     == ms[Len(ms)]
             k     == Cardinality({i \in 1..Len(front) : front[i][1] <= m[1]})
         IN  SubSeq(front, 1, k) \o <<m>> \o SubSeq(front, k + 1, Len(front))

\* is_sequential
is_sequential(sub_list) ==
    \A i \in 1..(Len(sub_list) - 1) : sub_list[i][1] + 1 = sub_list[i + 1][1]

\* The loop of remove_duplicates.
RECURSIVE DedupLoop(_, _, _)
DedupLoop(rest, deduplicated_list, existing_keys) ==
    IF rest = <<>> THEN deduplicated_list
    ELSE IF Head(rest)[1] \notin existing_keys
         THEN DedupLoop(Tail(rest), Append(deduplicated_list, Head(rest)),
                        existing_keys \cup {Head(rest)[1]})
         ELSE DedupLoop(Tail(rest), deduplicated_list, existing_keys)

\* A plausible slip: duplicates are not removed.
remove_duplicates_Kept(sorted_list) == sorted_list

\* remove_duplicates
remove_duplicates(sorted_list) ==
    IF Len(sorted_list) <= 1 THEN sorted_list
    ELSE DedupLoop(Tail(sorted_list), <<sorted_list[1]>>, {sorted_list[1][1]})

\* The sorted, deduplicated matches of a footnote stream.
SortedMatches(content) == remove_duplicates(SortByNumber(MatchesOf(ReadLines(content))))

\* The indices at which a sequential triplet starts.
TripletStarts(matches) ==
    {i \in 1..(Len(matches) - 2) : is_sequential(SubSeq(matches, i, i + 2))}

\* A plausible slip: the forward scan reports the triplet's middle element.
FirstCandidate_Middle(matches) ==
    IF TripletStarts(matches) = {} THEN NoneNum
    ELSE matches[Min(TripletStarts(matches)) + 1][1]

\* The forward scan: the first element of the first sequential triplet.
FirstCandidate(matches) ==
    IF TripletStarts(matches) = {} THEN NoneNum
    ELSE matches[Min(TripletStarts(matches))][1]

\* A plausible slip: the backward scan reports the first element of the
\* last triplet.
LastCandidate_First(matches) ==
    IF TripletStarts(matches) = {} THEN NoneNum
    ELSE matches[Max(TripletStarts(matches))][1]

\* The backward scan: the last element of the last sequential triplet.
LastCandidate(matches) ==
    IF TripletStarts(matches) = {} THEN NoneNum
    ELSE matches[Max(TripletStarts(matches)) + 2][1]

\* The text of the match whose number is n (the list is deduplicated, so
\* both the forward and the backward search find the same one).
MatchText(matches, n, fromBack) ==
    LET at == {i \in 1..Len(matches) : matches[i][1] = n}
    IN  matches[IF fromBack THEN Max(at) ELSE Min(at)][2]

\* The assignments and the two text searches, given the candidates left
\* after the sanity check; a candidate of None raises TypeError at
\* `last_fn >= first_fn`, and the except branch sets the five fields to None.
AssignFns(p, matches, first_fn, last_fn) ==
    IF first_fn = NoneNum \/ last_fn = NoneNum
    THEN [paper |-> [p EXCEPT !.first_fn_num = NoneNum, !.last_fn_num = NoneNum,
                              !.total_fns = NoneNum, !.first_fn_text = NoneText,
                              !.last_fn_text = NoneText],
          log   |-> <<"fns: error">>]
    ELSE [paper |-> [p EXCEPT !.first_fn_num = first_fn,
                              !.last_fn_num = last_fn,
                              !.total_fns = IF last_fn >= first_fn
                                            THEN last_fn - first_fn + 1
                                            ELSE p.total_fns,
                              !.first_fn_text = MatchText(matches, first_fn, FALSE),
                              !.last_fn_text = MatchText(matches, last_fn, TRUE)],
          log   |-> <<>>]

\* The sanity check: with more than three matches, a last candidate not
\* above the first discards both.
SanityCheck(p, matches, first_fn, last_fn) ==
    IF Len(matches) > 3 /\ first_fn # NoneNum /\ last_fn # NoneNum /\ last_fn <= first_fn
    THEN AssignFns(p, matches, NoneNum, NoneNum)
    ELSE AssignFns(p, matches, first_fn, last_fn)

\* The body of the function once the sorted, deduplicated matches are known:
\* nothing happens when there are none.
ScanMatches(p, matches) ==
    IF matches = <<>> THEN [paper |-> p, log |-> <<>>]
    ELSE SanityCheck(p, matches, FirstCandidate(matches), LastCandidate(matches))

\* The whole of extract_first_last_total_fns: the record after it and the
\* log entries it appends.
extract_first_last_total_fns(p, fs) ==
    IF p.fns_text = None
    THEN [paper |-> p, log |-> <<"fns: path is empty">>]
    ELSE IF fs[p.fns_text] = NoFile
    THEN [paper |-> [p EXCEPT !.first_fn_num = NoneNum, !.last_fn_num = NoneNum,
                              !.total_fns = NoneNum, !.first_fn_text = NoneText,
                              !.last_fn_text = NoneText],
          log   |-> <<"fns: error">>]
    ELSE ScanMatches(p, SortedMatches(fs[p.fns_text]))

-----------------------------------------------------------------------------
(* Footnote Reconciler: extract_acknowledgment_text *)

\* The value recorded when there is no acknowledgment.
NoAck == <<"N", "o", " ", "a", "c", "k", "n", "o", "w", "l", "e", "d", "g", "m", "e", "n", "t",
           " ", "T", "e", "x", "t">>

\* A plausible slip: the candidate is cut at the last occurrence of the
\* first footnote's text instead of the first.
AckCandidate_Last(all_fn_text, first_fn_text) ==
    LET at == {i \in 0..(Len(all_fn_text) - Len(first_fn_text)) :
                  SubSeq(all_fn_text, i + 1, i + Len(first_fn_text)) = first_fn_text}
    IN  clean_text(SubSeq(all_fn_text, 1, Max(at)))

\* clean_text(all_fn_text[:all_fn_text.find(first_fn_text)])
AckCandidate(all_fn_text, first_fn_text) ==
    clean_text(SubSeq(all_fn_text, 1, Find(all_fn_text, first_fn_text)))

\* A plausible slip: the false-positive check is left out.
AckFalsePositive_Skipped(ACK_text) == FALSE

\* The loop over ACK_text.split('\n'): some line matches block_pattern.
AckFalsePositive(ACK_text) ==
    LET lines == SplitOn(ACK_text, "\n")
    IN  \E i \in 1..Len(lines) : block_pattern_match(lines[i])

\* The whole of extract_acknowledgment_text.
extract_acknowledgment_text(p, fs) ==
    IF p.fns_text = None \/ p.first_fn_text = NoneText
    THEN [paper |-> p, log |-> <<>>]
    ELSE IF fs[p.fns_text] = NoFile
    THEN [paper |-> [p EXCEPT !.acknowledgment = NoneText], log |-> <<"ack: error">>]
    ELSE IF Find(fs[p.fns_text], p.first_fn_text) = -1
    THEN [paper |-> [p EXCEPT !.acknowledgment = NoneText],
          log   |-> <<"ack: first footnote not found">>]
    ELSE LET ACK_text == AckCandidate(fs[p.fns_text], p.first_fn_text)
         IN  [paper |-> [p EXCEPT !.acknowledgment =
                            IF ACK_text = <<>> \/ \A i \in 1..Len(ACK_text) : IsSpace(ACK_text[i])
                            THEN NoAck
                            ELSE IF AckFalsePositive(ACK_text) THEN NoAck ELSE ACK_text],
              log   |-> <<>>]

-----------------------------------------------------------------------------
(* reorganize_acknowledgment *)

\* str.splitlines(): the lines without their line breaks.
SplitLines(s) ==
    [i \in 1..Len(ReadLines(s)) |->
        SelectSeq(ReadLines(s)[i], LAMBDA c : c # "\n")]

\* c.isdigit() or c in ['t', '*', dagger]; no text of the model holds a
\* dagger.
StartsEntry(c) == IsDigit(c) \/ c \in {"t", "*"}

\* The tests of the loop raise IndexError on an empty line, and on a line
\* of whitespace that starts with a space.
LineRaises(line) ==
    IF line # <<>> /\ line[1] = " " THEN LStrip(line) = <<>> ELSE line = <<>>

\* What the loop adds to processed_text for a line that does not raise.
ProcessedLine(line) ==
    IF line[1] = " " /\ StartsEntry(LStrip(line)[1]) THEN <<"\n">> \o line
    ELSE IF StartsEntry(line[1]) THEN <<"\n">> \o line
    ELSE <<" ">> \o line

\* line.replace("- ", ""); i is 1-based.
RECURSIVE ReplaceHyphenSpace(_, _)
ReplaceHyphenSpace(line, i) ==
    IF i > Len(line) THEN <<>>
    ELSE IF i < Len(line) /\ line[i] = "-" /\ line[i + 1] = " "
    THEN ReplaceHyphenSpace(line, i + 2)
    ELSE <<line[i]>> \o ReplaceHyphenSpace(line, i + 1)

\* cleaned_text, from the lines of processed_text
CleanedText(lines) ==
    Join([i \in 1..Len(SelectSeq(lines, LAMBDA l : Strip(l) # <<>>)) |->
             Strip(ReplaceHyphenSpace(SelectSeq(lines, LAMBDA l : Strip(l) # <<>>)[i], 1))],
         "\n")

\* The try block for an acknowledgment whose lines do not raise.
Reorganized(p, lines) ==
    [p EXCEPT !.reorg_acknowledgment =
                  CleanedText(SplitOn(Concat([i \in 1..Len(lines) |-> ProcessedLine(lines[i])]),
                                      "\n")),
              !.reorg_acknowledgment_length =
                  count_words_in_string(
                      CleanedText(SplitOn(Concat([i \in 1..Len(lines) |->
                                                     ProcessedLine(lines[i])]), "\n")))]

\* The whole of reorganize_acknowledgment.  An acknowledgment of None has
\* no splitlines, and an empty line has no first character: the except
\* branch unsets the two fields and then formats paper.fulltext, an
\* attribute LRPaper does not have, so AttributeError leaves the function
\* before log_error is reached.
reorganize_acknowledgment(p) ==
    IF p.acknowledgment = NoneText
           \/ \E i \in 1..Len(SplitLines(p.acknowledgment)) :
                  LineRaises(SplitLines(p.acknowledgment)[i])
    THEN [paper  |-> [p EXCEPT !.reorg_acknowledgment = NoneText,
                               !.reorg_acknowledgment_length = NoneNum],
          log    |-> <<>>,
          raised |-> TRUE]
    ELSE [paper |-> Reorganized(p, SplitLines(p.acknowledgment)), log |-> <<>>, raised |-> FALSE]

-----------------------------------------------------------------------------
(* The record of a paper nothing has been extracted for yet (LRPaper()). *)

NewPaper ==
    [PDF |-> None, full_text |-> None, journal |-> NoneText, main_text |-> None, fns_text |-> None,
     main_text_length |-> NoneNum, fns_text_length |-> NoneNum,
     first_fn_num |-> NoneNum, last_fn_num |-> NoneNum, total_fns |-> NoneNum,
     first_fn_text |-> NoneText, last_fn_text |-> NoneText,
     acknowledgment |-> NoneText,
     reorg_acknowledgment |-> NoneText, reorg_acknowledgment_length |-> NoneNum,
     start |-> None, mid |-> None, end |-> None, short_SME_flag |-> FALSE,
     title |-> NoneText, general_length_problem_flag |-> TRUE, SME |-> None]

\* No file of the paper exists yet.
NoFiles == [f \in {"PDF", "M", "FN", "start", "mid", "end", "SME"} |-> NoFile]

-----------------------------------------------------------------------------
(* Footnote streams of the footnote specification *)

\* The longest enumerated stream, in lines.
MaxFnLines == 4
\* The largest footnote number of the enumerated streams.
MaxFn == 4

DigitChar(n) == CHOOSE c \in Digits : DigitVal(c) = n

\* A footnote line "n. a" (n < 10) or "nm. a".
FnLine(n) ==
    (IF n < 10 THEN <<DigitChar(n)>> ELSE <<DigitChar(n \div 10), DigitChar(n % 10)>>)
        \o <<".", " ", "a">>

\* The lines the enumerated streams are built from: a footnote line for
\* each number, a second, differently written line for footnote 1, an
\* acknowledgment line, a blank line and a line of four digits.
FnLineChoices ==
    {FnLine(n) : n \in 1..MaxFn}
        \cup {<<" ", "1", " ", ".", "b">>, <<"A", "c", "k", " ", " ", "x", ".">>, <<>>,
              <<"1", "2", "3", "4", ".">>}

\* The stream whose lines are ls, each ended by a line break.
StreamOf(ls) == Concat([i \in 1..Len(ls) |-> Append(ls[i], "\n")])

\* All sequences over S of length at most n.
SeqsUpTo(S, n) == UNION {[1..k -> S] : k \in 0..n}

\* Streams beyond the enumerated ones: the numbers 1,2,3,4,7,8,9; two runs
\* after an acknowledgment; an acknowledgment and one footnote with no final
\* line break; a numbered line inside the text before the first footnote.
ExtraStreams ==
    {StreamOf(<<FnLine(1), FnLine(2), FnLine(3), FnLine(4), FnLine(7), FnLine(8), FnLine(9)>>),
     StreamOf(<<<<"A", "c", "k", ".">>, FnLine(5), FnLine(6), FnLine(7), FnLine(3),
                FnLine(10), FnLine(11), FnLine(12)>>),
     <<"A", "c", "k", " ", "x", ".", "\n", "1", ".", " ", "a">>,
     StreamOf(<<FnLine(9), <<"A", "c", "k">>, FnLine(1), FnLine(2), FnLine(3)>>),
     StreamOf(<<<<" ">>, <<>>, <<"A", " ", "b">>, <<>>, <<" ">>, <<"c">>, FnLine(1), FnLine(2), FnLine(3)>>)}

FnStreams == {StreamOf(ls) : ls \in SeqsUpTo(FnLineChoices, MaxFnLines)} \cup ExtraStreams

-----------------------------------------------------------------------------
(* The footnote specification: one paper with a footnote stream (or with   *)
(* none), through extract_first_last_total_fns, extract_acknowledgment_text *)
(* and reorganize_acknowledgment.                                          *)

InitFns ==
    /\ \/ \E content \in FnStreams :
            /\ files = [NoFiles EXCEPT !["FN"] = content]
            /\ paper = [NewPaper EXCEPT !.fns_text = "FN"]
       \/ files = NoFiles /\ paper = NewPaper
    /\ log = <<>>
    /\ pc = "fns"

ExtractFirstLastTotalFns ==
    /\ pc = "fns"
    /\ LET r == extract_first_last_total_fns(paper, files)
       IN  paper' = r.paper /\ log' = log \o r.log
    /\ pc' = "ack"
    /\ UNCHANGED files

ExtractAcknowledgmentText ==
    /\ pc = "ack"
    /\ LET r == extract_acknowledgment_text(paper, files)
       IN  paper' = r.paper /\ log' = log \o r.log
    /\ pc' = "done"
    /\ UNCHANGED files

\* reorganize_acknowledgment, called on the record as the two extractions
\* left it; an exception it lets out ends the run of this paper.
ReorganizeAcknowledgment ==
    /\ pc = "done"
    /\ LET r == reorganize_acknowledgment(paper)
       IN  /\ paper' = r.paper
           /\ log' = log \o r.log
           /\ pc' = IF r.raised THEN "raised" ELSE "reorganized"
    /\ UNCHANGED files

NextFns == ExtractFirstLastTotalFns \/ ExtractAcknowledgmentText \/ ReorganizeAcknowledgment

SpecFns == InitFns /\ [][NextFns]_vars

-----------------------------------------------------------------------------
(* Footnote Reconciler: properties *)

Range(f) == {f[i] : i \in DOMAIN f}

\* The numbers n for which line reads: whitespace, n written with one to
\* three digits, at most one space, a period.
LineNumbers(line) ==
    {IntOf(line, x[1] + 1, x[2]) :
        x \in {y \in (0..Len(line)) \X (1..3) \X {0, 1} :
                 /\ y[1] + y[2] + y[3] + 1 <= Len(line)
                 /\ \A j \in 1..y[1] : IsSpace(line[j])
                 /\ \A j \in (y[1] + 1)..(y[1] + y[2]) : IsDigit(line[j])
                 /\ y[3] = 1 => line[y[1] + y[2] + 1] = " "
                 /\ line[y[1] + y[2] + y[3] + 1] = "."}}

\* The footnote numbers of a stream.
StreamNumbers(content) == UNION {LineNumbers(l) : l \in Range(SplitOn(content, "\n"))}

\* The numbers n of S with n + 1 and n + 2 in S as well.
TripletsIn(S) == {n \in S : n + 1 \in S /\ n + 2 \in S}

\* The stream without the lines that repeat the number of an earlier line.
DropRepeats(content) ==
    LET ls   == ReadLines(content)
        keep == {i \in 1..Len(ls) :
                    \A j \in 1..(i - 1) : LineNumbers(ls[i]) \cap LineNumbers(ls[j]) = {}}
        kept == [i \in 1..Len(ls) |-> IF i \in keep THEN ls[i] ELSE <<>>]
    IN  Concat(kept)

Stream1234789 ==
    StreamOf(<<FnLine(1), FnLine(2), FnLine(3), FnLine(4), FnLine(7), FnLine(8), FnLine(9)>>)

\* C2: after extract_first_last_total_fns, first_fn_num is the first number
\* of the first run of three consecutive footnote numbers and last_fn_num
\* the last number of the last such run; the numbers 1,2,3,4,7,8,9 give
\* first_fn_num = 1 and last_fn_num = 9.
C2_FirstLastTriplet ==
    (pc # "fns" /\ paper.fns_text # None) =>
        LET T == TripletsIn(StreamNumbers(files["FN"]))
        IN  /\ T # {} => paper.first_fn_num = Min(T) /\ paper.last_fn_num = Max(T) + 2
            /\ files["FN"] = Stream1234789 =>
                   paper.first_fn_num = 1 /\ paper.last_fn_num = 9

\* The stream 1,2,3,4,7,8,9 has been reconciled and both boundaries are set.
C2_Witness ==
    pc # "fns" /\ files["FN"] = Stream1234789
        /\ paper.first_fn_num # NoneNum /\ paper.last_fn_num # NoneNum

\* C3: when both boundaries are set total_fns = last_fn_num - first_fn_num + 1,
\* and first_fn_num, last_fn_num and total_fns are those of the stream
\* without its repeated numbers.
C3_TotalAfterDedup ==
    (pc # "fns" /\ paper.fns_text # None) =>
        /\ (paper.first_fn_num # NoneNum /\ paper.last_fn_num # NoneNum) =>
               paper.total_fns = paper.last_fn_num - paper.first_fn_num + 1
        /\ LET q == extract_first_last_total_fns(
                        [NewPaper EXCEPT !.fns_text = "FN"],
                        [files EXCEPT !["FN"] = DropRepeats(files["FN"])]).paper
           IN  /\ q.first_fn_num = paper.first_fn_num
               /\ q.last_fn_num = paper.last_fn_num
               /\ q.total_fns = paper.total_fns

\* The stream 1,1,2,3 (footnote 1 written twice) has been reconciled.
C3_Witness ==
    /\ pc # "fns"
    /\ files["FN"] = StreamOf(<<FnLine(1), <<" ", "1", " ", ".", "b">>, FnLine(2), FnLine(3)>>)
    /\ paper.total_fns = 3

\* The first line of the stream that holds footnote number n.
EarliestLine(content, n) ==
    ReadLines(content)[Min({j \in 1..Len(ReadLines(content)) :
                               n \in LineNumbers(ReadLines(content)[j])})]

\* C24: the match list after sorting and deduplication is strictly
\* increasing in number, holds every matched number of the stream exactly
\* once, and holds for each number the text of the earliest line of the
\* stream with that number, whatever the order and the repetitions of the
\* numbers in the stream.
C24_SortedDeduplicated ==
    (pc # "fns" /\ paper.fns_text # None) =>
        /\ \A i \in 1..(Len(SortedMatches(files["FN"])) - 1) :
               SortedMatches(files["FN"])[i][1] < SortedMatches(files["FN"])[i + 1][1]
        /\ {SortedMatches(files["FN"])[i][1] : i \in 1..Len(SortedMatches(files["FN"]))}
               = StreamNumbers(files["FN"])
        /\ \A i \in 1..Len(SortedMatches(files["FN"])) :
               SortedMatches(files["FN"])[i][2]
                   = Strip(EarliestLine(files["FN"], SortedMatches(files["FN"])[i][1]))

\* The stream 2, 1 (written " 1 .b"), 1, 3 has been reconciled: footnote 1
\* comes first with the text of its earlier line.
C24_Witness ==
    /\ pc # "fns"
    /\ files["FN"] = StreamOf(<<FnLine(2), <<" ", "1", " ", ".", "b">>, FnLine(1), FnLine(3)>>)
    /\ paper.first_fn_num = 1
    /\ paper.first_fn_text = <<"1", " ", ".", "b">>

\* C27: whenever extract_first_last_total_fns leaves both first_fn_num and
\* last_fn_num set, last_fn_num >= first_fn_num + 2 and total_fns >= 3; the
\* condition of the sanity branch (more than three matches, both
\* candidates found, last <= first) is false for every stream.
C27_BoundariesThreeApart ==
    /\ [](( pc # "fns" /\ paper.fns_text # None
              /\ paper.first_fn_num # NoneNum /\ paper.last_fn_num # NoneNum)
            => /\ paper.last_fn_num >= paper.first_fn_num + 2
               /\ paper.total_fns >= 3)
    /\ [][(pc = "fns" /\ paper.fns_text # None /\ files["FN"] # NoFile)
            => ~ /\ Len(SortedMatches(files["FN"])) > 3
                 /\ FirstCandidate(SortedMatches(files["FN"])) # NoneNum
                 /\ LastCandidate(SortedMatches(files["FN"])) # NoneNum
                 /\ LastCandidate(SortedMatches(files["FN"]))
                        <= FirstCandidate(SortedMatches(files["FN"]))]_vars

\* A stream of more than three matches has been reconciled, its first and
\* last triplets overlapping: the boundaries are 1 and 4.
C27_Witness ==
    /\ pc # "fns"
    /\ paper.fns_text # None
    /\ Len(SortedMatches(files["FN"])) > 3
    /\ paper.first_fn_num = 1
    /\ paper.last_fn_num = 4
    /\ paper.total_fns = 4

\* C7: when first_fn_text occurs in the stream, acknowledgment is the
\* cleaned text before its first occurrence, or the sentinel when that text
\* is empty or has a line that starts like a footnote.
C7_Acknowledgment ==
    (pc = "done" /\ paper.fns_text # None /\ paper.first_fn_text # NoneText) =>
        LET all  == files["FN"]
            fn   == paper.first_fn_text
            occ  == {i \in 0..(Len(all) - Len(fn)) : SubSeq(all, i + 1, i + Len(fn)) = fn}
            cand == clean_text(SubSeq(all, 1, Min(occ)))
        IN  /\ occ # {} =>
                 paper.acknowledgment =
                    IF cand = <<>> \/ \E l \in Range(SplitOn(cand, "\n")) : LineNumbers(l) # {}
                    THEN NoAck ELSE cand
            /\ all = StreamOf(<<<<" ">>, <<>>, <<"A", " ", "b">>, <<>>, <<" ">>, <<"c">>,
                                FnLine(1), FnLine(2), FnLine(3)>>)
                 => paper.acknowledgment = <<"A", " ", "b", "\n", "c">>
            /\ all = StreamOf(<<<<"A", "c", "k", " ", " ", "x", ".">>, FnLine(1), FnLine(2), FnLine(3)>>)
                 => paper.acknowledgment = <<"A", "c", "k", " ", "x", ".">>

\* An acknowledgment has been extracted from the text before the first
\* footnote.
C7_Witness ==
    /\ pc = "done"
    /\ paper.first_fn_text # NoneText
    /\ paper.acknowledgment \notin {NoAck, NoneText}
    /\ Find(files["FN"], paper.first_fn_text) > 0

\* C14 as stated: whenever the footnote stream has no three consecutive
\* numbers among its matched numbers (no matched number at all included),
\* after extract_first_last_total_fns the fields first_fn_num, last_fn_num
\* and total_fns are unset and an entry has been appended to the log.
C14_NoTripletLogged ==
    (pc = "ack" /\ paper.fns_text # None
        /\ TripletsIn(StreamNumbers(files["FN"])) = {}) =>
        /\ paper.first_fn_num = NoneNum
        /\ paper.last_fn_num = NoneNum
        /\ paper.total_fns = NoneNum
        /\ log # <<>>

\* The same with at least one matched number in the stream: the comparison
\* of the unset candidates raises and the except branch logs.
C14_SomeNumberNoTriplet ==
    (pc = "ack" /\ paper.fns_text # None
        /\ StreamNumbers(files["FN"]) # {}
        /\ TripletsIn(StreamNumbers(files["FN"])) = {}) =>
        /\ paper.first_fn_num = NoneNum
        /\ paper.last_fn_num = NoneNum
        /\ paper.total_fns = NoneNum
        /\ log = <<"fns: error">>

\* A stream without any matched number leaves the log empty.
C14_NoNumberSilent ==
    (pc = "ack" /\ paper.fns_text # None /\ StreamNumbers(files["FN"]) = {}) => log = <<>>

\* C15 as stated, for the stages of this specification: none of
\* extract_first_last_total_fns, extract_acknowledgment_text and
\* reorganize_acknowledgment lets an exception out to its caller, whatever
\* fields of the record are None; a failure ends as unset fields and a log
\* entry.
C15_NoStageRaises == pc # "raised"

\* Whenever reorganize_acknowledgment fails, it unsets its two fields, logs
\* nothing and lets the exception out.
C15_ReorganizeFailure ==
    [][(pc = "done" /\ paper'.reorg_acknowledgment = NoneText)
          => pc' = "raised" /\ log' = log /\ paper'.reorg_acknowledgment_length = NoneNum]_vars

\* The two extractions themselves never raise: each ends at the next stage.
C15_ExtractionsReturn ==
    [][(pc = "fns" => pc' = "ack") /\ (pc = "ack" => pc' = "done")]_vars

-----------------------------------------------------------------------------
(* Excerpt Segmenter: split_start_mid_end *)

\* Below this many words the main text is not excerpted.
MinWords == 100
\* From this many words on, the segments are fixed windows.
LongThreshold == 4500
\* The length of a fixed window.
SegmentWords == 1500

\* A plausible slip: a slice that starts one element early.
Slice_OneEarly(words, lo, hi) == SubSeq(words, IF lo = 0 THEN 1 ELSE lo, hi)

\* words[lo:hi] of Python, 0-based and half-open, for 0 <= lo and hi <= Len.
Slice(words, lo, hi) == SubSeq(words, lo + 1, hi)

\* A plausible slip: the guard lets texts of fewer than 100 words through.
TooShort_Unchecked(main_text, main_text_length) ==
    main_text = <<>> \/ Strip(main_text) = <<>>

\* The guard: not main_text or len(main_text.strip()) == 0 or
\* main_text.isspace() or paper.main_text_length < 100
TooShort(main_text, main_text_length) ==
    \/ main_text = <<>>
    \/ Strip(main_text) = <<>>
    \/ (main_text # <<>> /\ \A i \in 1..Len(main_text) : IsSpace(main_text[i]))
    \/ main_text_length < MinWords

\* The three segments cut from words = main_text.split(' '), and whether
\* the text counts as short.
Segments(words) ==
    LET main_text_length == Len(words)
        mid_start == (main_text_length - SegmentWords) \div 2
        one_third == main_text_length \div 3
    IN  IF main_text_length >= LongThreshold
        THEN [short |-> FALSE,
              start |-> Join(Slice(words, 0, SegmentWords), " "),
              mid   |-> Join(Slice(words, mid_start, mid_start + SegmentWords), " "),
              end   |-> Join(Slice(words, main_text_length - SegmentWords, main_text_length), " ")]
        ELSE [short |-> TRUE,
              start |-> Join(Slice(words, 0, one_third), " "),
              mid   |-> Join(Slice(words, one_third, one_third * 2), " "),
              end   |-> Join(Slice(words, one_third * 2, main_text_length), " ")]

\* The whole of split_start_mid_end: the record and the files after it and
\* the log entries it appends.
split_start_mid_end(p, fs) ==
    IF p.main_text = None \/ p.main_text_length = NoneNum
    THEN [paper |-> p, files |-> fs, log |-> <<"sme: no main_text">>]
    ELSE IF fs[p.main_text] = NoFile
    THEN [paper |-> [p EXCEPT !.start = None, !.mid = None, !.end = None],
          files |-> fs, log |-> <<"sme: error">>]
    ELSE IF TooShort(fs[p.main_text], p.main_text_length)
    THEN [paper |-> p, files |-> fs, log |-> <<"sme: empty or extremely short">>]
    ELSE LET seg == Segments(SplitOn(fs[p.main_text], " "))
             p1  == IF seg.short THEN [p EXCEPT !.short_SME_flag = TRUE] ELSE p
         IN  IF seg.start # <<>> /\ seg.mid # <<>> /\ seg.end # <<>>
             THEN [paper |-> [p1 EXCEPT !.start = "start", !.mid = "mid", !.end = "end"],
                   files |-> [fs EXCEPT !["start"] = seg.start, !["mid"] = seg.mid,
                                        !["end"] = seg.end],
                   log   |-> <<>>]
             ELSE [paper |-> p1, files |-> fs, log |-> <<>>]

-----------------------------------------------------------------------------
(* Excerpt Segmenter: merge_SME *)

\* From this many words of the three segments together, a short document
\* loses a fixed number of words at either end.
ShortTotal == 2000
\* That fixed number.
FixedExclude == 500
\* ignore_factor, in hundredths.
IgnoreFactor == 60

\* separator: a line break and five lines of five periods.
Separator ==
    <<"\n", ".....", "\n", ".....", "\n", ".....", "\n", ".....", "\n", ".....", "\n">>

\* A plausible slip: the words are excluded only above the threshold.
ExcludeCount_Above(total_expected_len, segment_len) ==
    IF total_expected_len > ShortTotal
    THEN FixedExclude
    ELSE (segment_len * IgnoreFactor) \div 100

\* start_exclude and end_exclude for a segment of segment_len words:
\* int(segment_len * ignore_factor) unless the three segments together
\* have 2000 words.
ExcludeCount(total_expected_len, segment_len) ==
    IF total_expected_len >= ShortTotal
    THEN FixedExclude
    ELSE (segment_len * IgnoreFactor) \div 100

\* read_partial_file: the words of the file but the first exclude_start
\* and the last exclude_end, joined by single spaces.
read_partial_file(fs, file_path, exclude_start, exclude_end) ==
    Join(SubSeq(SplitWs(fs[file_path]), exclude_start + 1,
                Len(SplitWs(fs[file_path])) - exclude_end), " ")

\* title if it is not None, else ""
TitleOf(p) == IF p.title = NoneText THEN <<>> ELSE p.title

\* What the regular branch writes before a segment file that is missing
\* makes read_partial_file raise, or all of it.
RegularWritten(p, fs) ==
    IF fs[p.start] = NoFile THEN TitleOf(p) \o <<":", "\n">>
    ELSE IF fs[p.mid] = NoFile
    THEN TitleOf(p) \o <<":", "\n">> \o read_partial_file(fs, p.start, 0, 0) \o Separator
    ELSE IF fs[p.end] = NoFile
    THEN TitleOf(p) \o <<":", "\n">> \o read_partial_file(fs, p.start, 0, 0) \o Separator
             \o read_partial_file(fs, p.mid, 0, 0) \o Separator
    ELSE TitleOf(p) \o <<":", "\n">> \o read_partial_file(fs, p.start, 0, 0) \o Separator
             \o read_partial_file(fs, p.mid, 0, 0) \o Separator
             \o read_partial_file(fs, p.end, 0, 0) \o <<"\n">> \o TitleOf(p)

\* total_expected_len
TotalExpectedLen(p, fs) ==
    count_words_in_file(fs, p.start) + count_words_in_file(fs, p.mid)
        + count_words_in_file(fs, p.end)

\* What the short branch writes; the sum over the three counts raises
\* before anything is written when a segment file is missing.
ShortWritten(p, fs) ==
    IF fs[p.start] = NoFile \/ fs[p.mid] = NoFile \/ fs[p.end] = NoFile THEN <<>>
    ELSE TitleOf(p) \o <<":", "\n">>
             \o read_partial_file(fs, p.start,
                     ExcludeCount(TotalExpectedLen(p, fs), count_words_in_file(fs, p.start)), 0)
             \o read_partial_file(fs, p.mid, 0, 0)
             \o read_partial_file(fs, p.end, 0,
                     ExcludeCount(TotalExpectedLen(p, fs), count_words_in_file(fs, p.end)))
             \o <<"\n">> \o TitleOf(p)

\* The whole of merge_SME: the record and the files after it and the log
\* entries it appends.
merge_SME(p, fs) ==
    IF p.start = None \/ p.mid = None \/ p.end = None
    THEN [paper |-> p, files |-> fs, log |-> <<"merge: attributes are None">>]
    ELSE IF p.general_length_problem_flag
    THEN [paper |-> p, files |-> fs, log |-> <<"merge: general_length_problem_flag">>]
    ELSE [paper |-> [p EXCEPT !.SME = "SME"],
          files |-> [fs EXCEPT !["SME"] = IF p.short_SME_flag THEN ShortWritten(p, fs)
                                          ELSE RegularWritten(p, fs)],
          log   |-> IF fs[p.start] = NoFile \/ fs[p.mid] = NoFile \/ fs[p.end] = NoFile
                    THEN <<"merge: error">> ELSE <<>>]

-----------------------------------------------------------------------------
(* Main texts of the excerpt specification.  Word i is the token           *)
(* ToString(i); the gaps between words are whitespace.                     *)

\* The shortest line, in words, is 1; the longest has this many words.
MaxLineWords == 2

\* The layouts of a text: line = 0 separates all words by one space,
\* line = k > 0 breaks the line after every k-th word; lead puts a space
\* before the first word and makes the first gap two spaces wide; trail ends
\* the text with a line break.
Layouts == [line : 0..MaxLineWords, lead : BOOLEAN, trail : BOOLEAN]

\* The gap after word i of n.
Gap(i, n, layout) ==
    IF i = n THEN (IF layout.trail THEN <<"\n">> ELSE <<>>)
    ELSE IF layout.line > 0 /\ i % layout.line = 0 THEN <<"\n">>
    ELSE IF layout.lead /\ i = 1 THEN <<" ", " ">>
    ELSE <<" ">>

\* The text of n words in a layout.
TextOf(n, layout) ==
    (IF layout.lead THEN <<" ">> ELSE <<>>)
        \o Concat([i \in 1..n |-> <<ToString(i)>> \o Gap(i, n, layout)])

\* The word counts tried: around each threshold of the code, and the 900 and
\* 6000 words of the documented examples.
TextSizes ==
    {0, 1, 3, MinWords - 1, MinWords, MinWords + 1, 900, 901,
     ShortTotal - 1, ShortTotal,
     LongThreshold - 1, LongThreshold, LongThreshold + 1, 6000}

-----------------------------------------------------------------------------
(* The excerpt specification: one paper with a main text (or none, or a    *)
(* path whose file is gone) through split_start_mid_end and merge_SME.     *)

\* The title of the enumerated papers.
PaperTitle == <<"T">>

InitSplit ==
    /\ \/ \E n \in TextSizes, layout \in Layouts :
            /\ files = [NoFiles EXCEPT !["M"] = TextOf(n, layout)]
            /\ \E flag \in BOOLEAN :
                 paper = [NewPaper EXCEPT !.main_text = "M",
                                          !.main_text_length = count_words_in_file(files, "M"),
                                          !.short_SME_flag = flag,
                                          !.title = PaperTitle,
                                          !.general_length_problem_flag = FALSE]
       \/ \E n \in {MinWords, LongThreshold}, problem \in BOOLEAN :
            /\ files = [NoFiles EXCEPT !["M"] = TextOf(n, [line |-> 0, lead |-> FALSE,
                                                          trail |-> problem])]
            /\ paper = [NewPaper EXCEPT !.main_text = "M", !.main_text_length = n,
                                        !.general_length_problem_flag = problem]
       \/ files = NoFiles /\ paper = NewPaper
       \/ files = NoFiles /\ paper = [NewPaper EXCEPT !.main_text = "M", !.main_text_length = 0]
    /\ log = <<>>
    /\ pc = "split"

SplitStartMidEnd ==
    /\ pc = "split"
    /\ LET r == split_start_mid_end(paper, files)
       IN  paper' = r.paper /\ files' = r.files /\ log' = log \o r.log
    /\ pc' = "done"

MergeSME ==
    /\ pc = "done"
    /\ LET r == merge_SME(paper, files)
       IN  paper' = r.paper /\ files' = r.files /\ log' = log \o r.log
    /\ pc' = "merged"

NextSplit == SplitStartMidEnd \/ MergeSME

SpecSplit == InitSplit /\ [][NextSplit]_vars

-----------------------------------------------------------------------------------------------------------------------------------------------------
(* Excerpt Segmenter: properties *)

\* split_start_mid_end is about to run on a main text that exists.
SplitStarts == pc = "split" /\ paper.main_text # None /\ files["M"] # NoFile

\* words is cut into the windows [0, 1500), [ms, ms + 1500) and
\* [N - 1500, N) with ms = (N - 1500) div 2, and fs holds them.
LongSegmentsOf(words, fs) ==
    LET N  == Len(words)
        ms == (N - SegmentWords) \div 2
    IN  /\ fs["start"] # NoFile /\ fs["mid"] # NoFile /\ fs["end"] # NoFile
        /\ SplitWs(fs["start"]) = Slice(words, 0, SegmentWords)
        /\ SplitWs(fs["mid"]) = Slice(words, ms, ms + SegmentWords)
        /\ SplitWs(fs["end"]) = Slice(words, N - SegmentWords, N)

\* fs holds three segments of N div 3, N div 3 and N - 2 (N div 3) words.
ShortSegmentsOf(words, fs) ==
    LET N == Len(words)
    IN  /\ fs["start"] # NoFile /\ fs["mid"] # NoFile /\ fs["end"] # NoFile
        /\ Len(SplitWs(fs["start"])) = N \div 3
        /\ Len(SplitWs(fs["mid"])) = N \div 3
        /\ Len(SplitWs(fs["end"])) = N - 2 * (N \div 3)

\* C4: a main text of N >= 4500 whitespace-delimited words gives
\* start = words[0:1500], mid = words[(N-1500) div 2 : (N-1500) div 2 + 1500],
\* end = words[N-1500:N] and leaves the short flag false, whatever
\* whitespace separates the words.
C4_LongSplit ==
    [][LET words == SplitWs(files["M"])
       IN  (SplitStarts /\ Len(words) >= LongThreshold) =>
               /\ LongSegmentsOf(words, files')
               /\ ~paper.short_SME_flag => ~paper'.short_SME_flag]_vars

\* C5: a main text of 100 <= N < 4500 whitespace-delimited words gets the
\* short flag and three segments of N div 3, N div 3 and N - 2 (N div 3)
\* words, whatever whitespace separates the words.
C5_ShortSplit ==
    [][LET words == SplitWs(files["M"])
       IN  (SplitStarts /\ Len(words) >= MinWords /\ Len(words) < LongThreshold) =>
               /\ paper'.short_SME_flag
               /\ ShortSegmentsOf(words, files')]_vars

\* The main text has one space between any two words, none before the
\* first word and at most a line break after the last.
SingleSpaced(text) ==
    \E n \in TextSizes, t \in BOOLEAN :
        text = TextOf(n, [line |-> 0, lead |-> FALSE, trail |-> t])

\* What C4 and C5 say is what split_start_mid_end does on the texts whose
\* words are separated by single spaces.
SingleSpacedSplit ==
    [][LET words == SplitWs(files["M"])
       IN  (SplitStarts /\ SingleSpaced(files["M"]) /\ Len(words) >= MinWords) =>
               IF Len(words) >= LongThreshold
               THEN LongSegmentsOf(words, files')
                        /\ paper'.short_SME_flag = paper.short_SME_flag
               ELSE ShortSegmentsOf(words, files') /\ paper'.short_SME_flag]_vars

\* C6: on a main text that is empty, all whitespace or shorter than 100
\* words, split_start_mid_end writes no segment file, leaves start, mid, end
\* and the short flag as they were and appends one log entry.
C6_TooShortSkipped ==
    [][(SplitStarts /\ Len(SplitWs(files["M"])) < MinWords)
       => /\ files' = files
          /\ paper' = paper
          /\ Len(log') = Len(log) + 1]_vars

\* A text of 99 words, or of nothing but whitespace, has been through
\* split_start_mid_end with the short flag set by an earlier run.
C6_Witness ==
    /\ pc = "done"
    /\ files["M"] # NoFile
    /\ Len(SplitWs(files["M"])) = MinWords - 1
          \/ (files["M"] # <<>> /\ Len(SplitWs(files["M"])) = 0)
    /\ log # <<>>
    /\ paper.short_SME_flag

\* merge_SME is about to run on a paper whose three segments are set and
\* whose length raised no problem.
MergeStarts ==
    /\ pc = "done"
    /\ paper.start # None /\ paper.mid # None /\ paper.end # None
    /\ ~paper.general_length_problem_flag

\* The number of words C23 says are trimmed from a boundary segment of n
\* words when the three segments have total words together.
StatedTrim(total, n) == IF total >= 2000 THEN 500 ELSE (6 * n) \div 10

\* The words of the three segment files together.
SegmentsTotal(fs) ==
    Len(SplitWs(fs["start"])) + Len(SplitWs(fs["mid"])) + Len(SplitWs(fs["end"]))

\* start without its first words and end without its last words, as C23
\* states their numbers, each joined by single spaces.
TrimmedStart(fs) ==
    Join(SubSeq(SplitWs(fs["start"]),
                StatedTrim(SegmentsTotal(fs), Len(SplitWs(fs["start"]))) + 1,
                Len(SplitWs(fs["start"]))), " ")
TrimmedEnd(fs) ==
    Join(SubSeq(SplitWs(fs["end"]), 1,
                Len(SplitWs(fs["end"]))
                    - StatedTrim(SegmentsTotal(fs), Len(SplitWs(fs["end"])))), " ")

\* C23: for a short document merge_SME trims 500 words from the front of
\* start and from the back of end when the three segments have 2000 words
\* or more together, and floor(0.6 * its word count) from each otherwise;
\* mid is written in full and no separator line is written.
C23_ShortTrim ==
    [][(MergeStarts /\ paper.short_SME_flag)
          => /\ files'["SME"] = TitleOf(paper) \o <<":", "\n">> \o TrimmedStart(files)
                                    \o Join(SplitWs(files["mid"]), " ")
                                    \o TrimmedEnd(files) \o <<"\n">> \o TitleOf(paper)
             /\ \A k \in 1..Len(files'["SME"]) : files'["SME"][k] # "....."]_vars

\* A text of 901 words, one space apart, has been cut into 300, 300 and
\* 301 words and merged without the first 180 words of start and the last
\* 180 of end.
C23_Witness ==
    /\ pc = "merged"
    /\ paper.short_SME_flag
    /\ paper.main_text_length = 901
    /\ files["SME"] # NoFile
    /\ SubSeq(files["SME"], 1, 5) = <<"T", ":", "\n", "181", " ">>
    /\ SubSeq(files["SME"], Len(files["SME"]) - 2, Len(files["SME"])) = <<"721", "\n", "T">>

\* start is the beginning of the text, end is its end, and mid lies
\* between the two, touching neither.
SlicesInOrder(text, start, mid, end) ==
    /\ Len(start) + Len(mid) + Len(end) <= Len(text)
    /\ SubSeq(text, 1, Len(start)) = start
    /\ SubSeq(text, Len(text) - Len(end) + 1, Len(text)) = end
    /\ \E k \in Len(start)..(Len(text) - Len(end) - Len(mid)) :
           /\ text[k + 1] = mid[1]
           /\ SubSeq(text, k + 1, k + Len(mid)) = mid

\* C28: when split_start_mid_end writes segments, start, mid and end are
\* contiguous pieces of the main text, in the order of the text and without
\* a token in common; in the short case the three pieces, with the one
\* space that separated them, are the whole text.
C28_SegmentsDisjointInOrder ==
    [][(SplitStarts /\ files'["start"] # NoFile)
          => /\ SlicesInOrder(files["M"], files'["start"], files'["mid"], files'["end"])
             /\ Len(SplitOn(files["M"], " ")) < LongThreshold
                    => files["M"] = files'["start"] \o <<" ">> \o files'["mid"]
                                        \o <<" ">> \o files'["end"]]_vars

\* A text of 6000 words, one space apart, has been cut into the windows
\* that end at word 1500, start at word 2251 and start at word 4501.
C28_Witness ==
    /\ pc = "done"
    /\ paper.main_text_length = 6000
    /\ files["start"] # NoFile
    /\ files["start"][Len(files["start"])] = "1500"
    /\ files["mid"][1] = "2251"
    /\ files["end"][1] = "4501"

\* The text without its spaces.
WithoutSpaces(text) == SelectSeq(text, LAMBDA c : c # " ")

\* The merged text between the title line and the line break before the
\* closing title.
ExcerptBody(text, title) == SubSeq(text, Len(title) + 3, Len(text) - Len(title) - 1)

\* The words of start without its first N words, of mid, and of end
\* without its last N words, N as merge_SME computes it for each.
KeptWords(fs) ==
    SubSeq(SplitWs(fs["start"]),
           ExcludeCount(SegmentsTotal(fs), Len(SplitWs(fs["start"]))) + 1,
           Len(SplitWs(fs["start"])))
        \o SplitWs(fs["mid"])
        \o SubSeq(SplitWs(fs["end"]), 1,
                  Len(SplitWs(fs["end"]))
                      - ExcludeCount(SegmentsTotal(fs), Len(SplitWs(fs["end"]))))

\* C30 as stated: for a short document the words of the merged excerpt
\* between the title prefix and the title suffix are those of start
\* without its first N words, then all of mid, then those of end without
\* its last N words: no word is lost, added or fused with a neighbour at
\* the two seams.
C30_ShortExcerptWords ==
    [][(MergeStarts /\ paper.short_SME_flag)
          => SplitWs(ExcerptBody(files'["SME"], TitleOf(paper))) = KeptWords(files)]_vars

\* What merge_SME writes for a short document: the three pieces follow one
\* another with nothing in between, so the last word of start is one word
\* with the first of mid, and the last of mid with the first of end; the
\* excerpt has two words fewer.
C30_SeamsFused ==
    [][(MergeStarts /\ paper.short_SME_flag)
          => /\ Len(SplitWs(ExcerptBody(files'["SME"], TitleOf(paper))))
                    = Len(KeptWords(files)) - 2
             /\ WithoutSpaces(ExcerptBody(files'["SME"], TitleOf(paper)))
                    = Concat(KeptWords(files))]_vars

\* For a document that is not short the separators keep the words of the
\* three segments apart.
C30_RegularExcerptWords ==
    [][(MergeStarts /\ ~paper.short_SME_flag)
          => SelectSeq(SplitWs(ExcerptBody(files'["SME"], TitleOf(paper))),
                       LAMBDA w : w # <<".....">>)
                 = SplitWs(files["start"]) \o SplitWs(files["mid"]) \o SplitWs(files["end"])]_vars

-----------------------------------------------------------------------------
(* Reflow Engine: the character classes and str methods of the two passes *)

LowerLetters ==
    <<"a", "b", "c", "d", "e", "f", "g", "h", "i", "j", "k", "l", "m", "n", "o", "p", "q", "r", "s", "t", "u", "v", "w", "x", "y", "z">>
UpperLetters ==
    <<"A", "B", "C", "D", "E", "F", "G", "H", "I", "J", "K", "L", "M", "N", "O", "P", "Q", "R", "S", "T", "U", "V", "W", "X", "Y", "Z">>

\* str.islower() / str.isupper() of one character
IsLower(c) == \E i \in 1..Len(LowerLetters) : LowerLetters[i] = c
IsUpper(c) == \E i \in 1..Len(UpperLetters) : UpperLetters[i] = c
IsCased(c) == IsLower(c) \/ IsUpper(c)

\* str.upper() / str.lower() of one character
ToUpper(c) ==
    IF IsLower(c) THEN UpperLetters[CHOOSE i \in 1..Len(LowerLetters) : LowerLetters[i] = c] ELSE c
ToLower(c) ==
    IF IsUpper(c) THEN LowerLetters[CHOOSE i \in 1..Len(UpperLetters) : UpperLetters[i] = c] ELSE c

\* str.upper()
Upper(s) == [i \in 1..Len(s) |-> ToUpper(s[i])]

\* str.title(): a cased character is upper case after an uncased one (or at
\* the start) and lower case after a cased one.
Title(s) ==
    [i \in 1..Len(s) |->
        IF i > 1 /\ IsCased(s[i - 1]) THEN ToLower(s[i]) ELSE ToUpper(s[i])]

\* string.punctuation, short of the grave accent, which a TLA+ string cannot
\* hold (no text of the model contains one)
Punctuation ==
    {"!", "\"", "#", "$", "%", "&", "'", "(", ")", "*", "+", ",", "-", ".", "/", ":", ";", "<", "=", ">", "?", "@", "[", "\\", "]", "^", "_", "{", "|", "}", "~"}

\* s[a:b] for a possibly negative and b >= 0
PySlice(s, a, b) ==
    SubSeq(s, (IF a < 0 THEN Max({Len(s) + a, 0}) ELSE Min({a, Len(s)})) + 1, Min({b, Len(s)}))

\* s.find(c, from): the 0-based index of the first c at or after from, or -1
FindFrom(s, c, from) ==
    IF \E i \in from..(Len(s) - 1) : s[i + 1] = c
    THEN Min({i \in from..(Len(s) - 1) : s[i + 1] = c})
    ELSE -1

-----------------------------------------------------------------------------
(* Reflow Engine: remove_extra_lines_main *)

\* is_title_or_uppercase
is_title_or_uppercase(line) == line = Title(line) \/ line = Upper(line)

\* is_mostly_uppercase: (uppercase_chars / len(line)) * 100 >= 75
is_mostly_uppercase(line) ==
    line # <<>> /\ Cardinality({i \in 1..Len(line) : IsUpper(line[i])}) * 100 >= 75 * Len(line)

\* ends_with_punctuation
ends_with_punctuation(line) ==
    /\ line # <<>>
    /\ line[Len(line)] \in Punctuation
    /\ line[Len(line)] \notin {"-", ","}

\* can_join
can_join(next_line) ==
    \/ Strip(next_line) = <<>>
    \/ ~(is_title_or_uppercase(Strip(next_line)) \/ is_mostly_uppercase(Strip(next_line)))

\* The first test of the loop: the line is appended as it is.
KeepsLine(stripped_line) ==
    \/ stripped_line = <<>>
    \/ is_title_or_uppercase(stripped_line)
    \/ is_mostly_uppercase(stripped_line)
    \/ ends_with_punctuation(stripped_line)

\* new_line, by the last character of stripped_line
NewLine(stripped_line, next_line) ==
    IF stripped_line[Len(stripped_line)] = "-"
    THEN SubSeq(stripped_line, 1, Len(stripped_line) - 1) \o LStrip(next_line)
    ELSE IF stripped_line[Len(stripped_line)] = "," /\ next_line # <<>> /\ next_line[1] = " "
    THEN stripped_line \o LStrip(next_line)
    ELSE stripped_line \o <<" ">> \o LStrip(next_line)

\* The while loop over the lines; i is 1-based here.
RECURSIVE RemoveLoop(_, _, _)
RemoveLoop(lines, i, processed_lines) ==
    IF i > Len(lines) THEN processed_lines
    ELSE IF KeepsLine(RStrip(lines[i]))
    THEN RemoveLoop(lines, i + 1, Append(processed_lines, lines[i]))
    ELSE IF i = Len(lines) THEN Append(processed_lines, lines[i])
    ELSE IF can_join(lines[i + 1])
    THEN RemoveLoop(lines, i + 2, Append(processed_lines, NewLine(RStrip(lines[i]), lines[i + 1])))
    ELSE RemoveLoop(lines, i + 1, Append(processed_lines, lines[i]))

\* text_after_removing_lines
RemovedLines(text) == Concat(RemoveLoop(ReadLines(text), 1, <<>>))

\* A plausible slip: the 5% test is left out and every result is written.
MajorChange_Never(orig_length, current_length) == FALSE

\* (orig_length > current_length*1.05) or (orig_length < current_length*0.95)
MajorChange(orig_length, current_length) ==
    \/ orig_length * 100 > current_length * 105
    \/ orig_length * 100 < current_length * 95

\* The end of both passes: the comparison raises TypeError on a None count
\* (the except branch logs and writes nothing); a major change is logged and
\* nothing is written; otherwise the new text is written.
CommitPass(fs, path, text, orig_length, current_length, pass) ==
    IF orig_length = NoneNum \/ current_length = NoneNum
    THEN [files |-> fs, log |-> <<pass \o ": error">>]
    ELSE IF MajorChange(orig_length, current_length)
    THEN [files |-> fs, log |-> <<pass \o ": major change">>]
    ELSE [files |-> [fs EXCEPT ![path] = text], log |-> <<>>]

\* A plausible slip: the output is compared with the count of the text as
\* the cycle found it.
remove_extra_lines_main_PrePass(p, orig_length, fs) ==
    IF p.main_text = None \/ fs[p.main_text] = NoFile
    THEN [files |-> fs, log |-> <<"remove: error">>]
    ELSE CommitPass(fs, p.main_text, RemovedLines(fs[p.main_text]),
                    count_words_in_string(fs[p.main_text]),
                    count_words_in_string(RemovedLines(fs[p.main_text])), "remove")

\* The whole of remove_extra_lines_main: the files after it and the log
\* entries it appends.
remove_extra_lines_main(p, orig_length, fs) ==
    IF p.main_text = None \/ fs[p.main_text] = NoFile
    THEN [files |-> fs, log |-> <<"remove: error">>]
    ELSE CommitPass(fs, p.main_text, RemovedLines(fs[p.main_text]), orig_length,
                    count_words_in_string(RemovedLines(fs[p.main_text])), "remove")

-----------------------------------------------------------------------------
(* Reflow Engine: add_missing_lines_main *)

\* abbrevs of gen_add_missing_lines_main
Abbrevs ==
    {<<"M", "r", ".">>,
     <<"M", "r", "s", ".">>,
     <<"M", "s", ".">>,
     <<"D", "r", ".">>,
     <<"J", "r", ".">>,
     <<"S", "r", ".">>,
     <<"I", "n", "c", ".">>,
     <<"S", "t", ".">>,
     <<"C", "o", ".">>,
     <<"L", "t", "d", ".">>,
     <<"E", "t", "c", ".">>,
     <<"e", "t", "c", ".">>,
     <<"M", "t", ".">>,
     <<"F", "t", ".">>,
     <<"v", "s", ".">>,
     <<"e", "t", " ", "a", "l", ".">>,
     <<"i", ".", "e", ".">>,
     <<"E", "t", " ", "a", "l", ".">>,
     <<"E", ".", "g", ".">>,
     <<"E", ".", "G", ".">>,
     <<"e", ".", "g", ".">>,
     <<"U", ".", "S", ".">>,
     <<"U", ".", "S", ".", "C", ".">>,
     <<"C", ".", "F", ".", "R", ".">>,
     <<"a", ".", "m", ".">>,
     <<"p", ".", "m", ".">>,
     <<"A", ".", "M", ".">>,
     <<"P", ".", "M", ".">>}

\* is_abbreviation: the slice runs from len(abbrev) characters before the
\* period up to and including the period.
is_abbreviation(line, next_period_index) ==
    \E abbrev \in Abbrevs :
        PySlice(line, next_period_index - Len(abbrev), next_period_index + 1) = abbrev

\* is_special_v_case
is_special_v_case(line, next_period_index) ==
    PySlice(line, next_period_index - 2, next_period_index) \in {<<" ", "v">>, <<" ", "V">>}

\* re.match(r"\.\s*\d+", line[next_period_index:]): match.end(), or 0 when
\* there is no match.
NumberMatchEnd(line, next_period_index) ==
    IF DigitRun(line, next_period_index + 2
                      + LeadWs(SubSeq(line, next_period_index + 2, Len(line)))) = 0
    THEN 0
    ELSE 1 + LeadWs(SubSeq(line, next_period_index + 2, Len(line)))
           + DigitRun(line, next_period_index + 2
                            + LeadWs(SubSeq(line, next_period_index + 2, Len(line))))

\* The while loop over one line: the line after it.  The indices are the
\* source's 0-based ones.
RECURSIVE ScanLine(_, _)
RECURSIVE AfterPeriod(_, _, _)
ScanLine(line, temp_period_index) ==
    IF temp_period_index >= Len(line) THEN line
    ELSE IF FindFrom(line, ".", temp_period_index) = -1 THEN line
    ELSE IF \/ is_abbreviation(line, FindFrom(line, ".", temp_period_index))
            \/ is_special_v_case(line, FindFrom(line, ".", temp_period_index))
    THEN ScanLine(line, FindFrom(line, ".", temp_period_index) + 1)
    ELSE AfterPeriod(line, FindFrom(line, ".", temp_period_index),
                     NumberMatchEnd(line, FindFrom(line, ".", temp_period_index)))

\* A plausible slip: the line break is put at next_char_index, after the
\* whitespace.
AfterPeriod_AtNextChar(line, next_period_index, match_end) ==
    LET temp_period_index == next_period_index + (IF match_end # 0 THEN match_end ELSE 1)
        next_char_index   == temp_period_index
                                 + LeadWs(SubSeq(line, temp_period_index + 1, Len(line)))
    IN  IF temp_period_index < Len(line) /\ IsSpace(line[temp_period_index + 1])
        THEN IF next_char_index < Len(line) /\ IsUpper(line[next_char_index + 1])
             THEN ScanLine(SubSeq(line, 1, next_char_index) \o <<"\n">>
                               \o SubSeq(line, next_char_index + 1, Len(line)),
                           next_char_index + 1)
             ELSE ScanLine(line, temp_period_index)
        ELSE ScanLine(line, temp_period_index)

\* A plausible slip: the scan of a line ends with its first line break.
AfterPeriod_OneBreak(line, next_period_index, match_end) ==
    LET temp_period_index == next_period_index + (IF match_end # 0 THEN match_end ELSE 1)
        next_char_index   == temp_period_index
                                 + LeadWs(SubSeq(line, temp_period_index + 1, Len(line)))
    IN  IF temp_period_index < Len(line) /\ IsSpace(line[temp_period_index + 1])
        THEN IF next_char_index < Len(line) /\ IsUpper(line[next_char_index + 1])
             THEN SubSeq(line, 1, temp_period_index) \o <<"\n">>
                      \o SubSeq(line, temp_period_index + 1, Len(line))
             ELSE ScanLine(line, temp_period_index)
        ELSE ScanLine(line, temp_period_index)

\* The part of the loop body after the abbreviation tests.
AfterPeriod(line, next_period_index, match_end) ==
    LET temp_period_index == next_period_index + (IF match_end # 0 THEN match_end ELSE 1)
        next_char_index   == temp_period_index
                                 + LeadWs(SubSeq(line, temp_period_index + 1, Len(line)))
    IN  IF temp_period_index < Len(line) /\ IsSpace(line[temp_period_index + 1])
        THEN IF next_char_index < Len(line) /\ IsUpper(line[next_char_index + 1])
             THEN ScanLine(SubSeq(line, 1, temp_period_index) \o <<"\n">>
                               \o SubSeq(line, temp_period_index + 1, Len(line)),
                           next_char_index)
             ELSE ScanLine(line, temp_period_index)
        ELSE ScanLine(line, temp_period_index)

\* The for loop over the lines: a blank line is kept as it is.
AddedLine(line) == IF Strip(line) = <<>> THEN line ELSE ScanLine(line, 0)

\* new_text
AddedLines(text) ==
    Concat([i \in 1..Len(ReadLines(text)) |-> AddedLine(ReadLines(text)[i])])

\* The whole of add_missing_lines_main: the files after it and the log
\* entries it appends.
add_missing_lines_main(p, orig_length, fs) ==
    IF p.main_text = None \/ fs[p.main_text] = NoFile
    THEN [files |-> fs, log |-> <<"add: error">>]
    ELSE CommitPass(fs, p.main_text, AddedLines(fs[p.main_text]), orig_length,
                    count_words_in_string(AddedLines(fs[p.main_text])), "add")

-----------------------------------------------------------------------------
(* clear_journal_name *)

\* The 1-based positions at or after i where the journal's name starts in
\* file_content, in any letter case.
JournalAt(file_content, journal, i) ==
    {k \in i..(Len(file_content) - Len(journal) + 1) :
        Upper(SubSeq(file_content, k, k + Len(journal) - 1)) = Upper(journal)}

\* re.compile(re.escape(journal), re.IGNORECASE).sub('', file_content): the
\* occurrences of the journal's name are cut out from left to right, each
\* search starting where the last match ended; i is 1-based.
RECURSIVE JournalCut(_, _, _)
JournalCut(file_content, journal, i) ==
    IF journal = <<>> THEN file_content
    ELSE IF JournalAt(file_content, journal, i) = {}
    THEN SubSeq(file_content, i, Len(file_content))
    ELSE SubSeq(file_content, i, Min(JournalAt(file_content, journal, i)) - 1)
             \o JournalCut(file_content, journal,
                           Min(JournalAt(file_content, journal, i)) + Len(journal))

\* The end of clear_journal_name: updated_content is written and the file
\* counted again.
JournalCleared(p, fs, updated_content) ==
    [paper |-> [p EXCEPT !.main_text_length =
                   count_words_in_file([fs EXCEPT ![p.main_text] = updated_content],
                                       p.main_text)],
     files |-> [fs EXCEPT ![p.main_text] = updated_content],
     log   |-> <<>>]

\* The whole of clear_journal_name: the record and the files after it and
\* the log entries it appends.  updated_content is computed once.
clear_journal_name(p, fs) ==
    IF p.main_text = None \/ p.journal = NoneText
    THEN [paper |-> p, files |-> fs, log |-> <<"ERROR: Journal or main_text is None">>]
    ELSE IF fs[p.main_text] = NoFile
    THEN [paper |-> p, files |-> fs, log |-> <<"ERROR: Could not open/read main_text file">>]
    ELSE CHOOSE r \in {JournalCleared(p, fs, updated_content) :
                          updated_content \in {JournalCut(fs[p.main_text], p.journal, 1)}} : TRUE

-----------------------------------------------------------------------------
(* The reflow specification: one paper's main text through                 *)
(* clear_journal_name, gen_remove_extra_lines_main and then                *)
(* gen_add_missing_lines_main, one cycle of a pass per step.               *)

\* range(6) of gen_remove_extra_lines_main, range(3) of gen_add_missing_lines_main
RemoveCycles == 6
AddCycles == 3

\* The most lines of an enumerated main text, after its first line.
MaxReflowLines == 3
\* The words of the first line of the longer enumerated texts.
PadWords == 19

\* The lines the enumerated texts are built from: two lines ending in a
\* hyphen, a sentence end inside a line, a line ending in a comma, a line
\* that starts with a space, a blank line, a title-case line, and a period
\* followed by a number.
ReflowLineChoices ==
    {<<"a", "-">>, <<"b", "-">>, <<"c", ".", " ", "B">>, <<"d", ",">>, <<" ", "e">>, <<>>,
     <<"F", "g">>, <<"i", " ", ".", "1", " ", "L">>}

\* A first line of n words that ends a sentence.
RECURSIVE PadLine(_)
PadLine(n) == IF n = 1 THEN <<"x", ".">> ELSE <<"x", " ">> \o PadLine(n - 1)

\* The name of the journal of the enumerated papers.
JournalName == <<"L", "R">>

\* A text of 2^RemoveCycles + 1 lines of one lower-case word each.
LongRun == StreamOf([i \in 1..(2^RemoveCycles + 1) |-> <<"a">>])

\* The enumerated main texts; the last six end without a line break, are
\* blank, hold an abbreviation and a period after " v", hold the name of
\* the journal, in two letter cases and inside a longer text, and are a
\* long run of lines that can all be joined.
ReflowTexts ==
    {StreamOf(ls) : ls \in SeqsUpTo(ReflowLineChoices, MaxReflowLines)}
        \cup {StreamOf(<<PadLine(PadWords)>> \o ls) :
                 ls \in SeqsUpTo(ReflowLineChoices, MaxReflowLines)}
        \cup {<<"a", "-", "\n", "b">>, <<" ", "\n", "\n">>,
              <<"M", "r", ".", " ", "B", " ", "v", ".", " ", "K", "\n">>,
              <<"l", "r", " ", "a", "-", "\n", "b", " ", "L", "R", "\n">>,
              StreamOf(<<PadLine(PadWords), <<"L", "r", " ", "a", "-">>, <<"b", "l", "R", "c">>>>),
              LongRun}

InitReflow ==
    /\ \/ \E text \in ReflowTexts :
            /\ files = [NoFiles EXCEPT !["M"] = text]
            /\ paper = [NewPaper EXCEPT !.main_text = "M", !.journal = JournalName,
                                        !.main_text_length = Len(SplitWs(text))]
       \/ /\ files = [NoFiles EXCEPT !["M"] = <<"a", " ", "L", "R", "\n">>]
          /\ paper = [NewPaper EXCEPT !.main_text = "M", !.main_text_length = 2]
       \/ files = NoFiles /\ paper = [NewPaper EXCEPT !.main_text = "M", !.journal = JournalName]
       \/ files = NoFiles /\ paper = NewPaper
    /\ log = <<>>
    /\ pc = <<"clear", 0>>

\* A plausible slip: the length is not counted again after the last cycle.
Recount_Stale(p, fs) == p

\* After the last cycle of a pass: paper.main_text_length is counted again.
Recount(p, fs) == [p EXCEPT !.main_text_length = count_words_in_file(fs, p.main_text)]

\* What count_words_in_file logs for a path: an entry when it cannot be read.
CountLog(fs, path) ==
    IF path = None \/ fs[path] = NoFile THEN <<"ERROR: Could not count words">> ELSE <<>>

\* clear_journal_name, as gen_fns_and_main_processing_with_timeout calls it
\* once the main text is written and counted.
ClearJournalName ==
    /\ pc[1] = "clear"
    /\ LET r == clear_journal_name(paper, files)
       IN  paper' = r.paper /\ files' = r.files /\ log' = log \o r.log
    /\ pc' = <<"remove", 1>>

\* One cycle of gen_remove_extra_lines_main; a paper without main_text is
\* passed over.
RemoveExtraLinesMain ==
    /\ pc[1] = "remove"
    /\ IF paper.main_text = None
       THEN /\ UNCHANGED <<paper, files, log>>
            /\ pc' = <<"add", 1>>
       ELSE /\ files' = remove_extra_lines_main(paper, paper.main_text_length, files).files
            /\ IF pc[2] = RemoveCycles
               THEN /\ paper' = Recount(paper, files')
                    /\ log' = log \o remove_extra_lines_main(paper, paper.main_text_length, files).log
                                  \o CountLog(files', paper.main_text)
                    /\ pc' = <<"add", 1>>
               ELSE /\ paper' = paper
                    /\ log' = log \o remove_extra_lines_main(paper, paper.main_text_length, files).log
                    /\ pc' = <<"remove", pc[2] + 1>>

\* One cycle of gen_add_missing_lines_main.
AddMissingLinesMain ==
    /\ pc[1] = "add"
    /\ IF paper.main_text = None
       THEN /\ UNCHANGED <<paper, files, log>>
            /\ pc' = <<"done", 0>>
       ELSE /\ files' = add_missing_lines_main(paper, paper.main_text_length, files).files
            /\ IF pc[2] = AddCycles
               THEN /\ paper' = Recount(paper, files')
                    /\ log' = log \o add_missing_lines_main(paper, paper.main_text_length, files).log
                                  \o CountLog(files', paper.main_text)
                    /\ pc' = <<"done", 0>>
               ELSE /\ paper' = paper
                    /\ log' = log \o add_missing_lines_main(paper, paper.main_text_length, files).log
                    /\ pc' = <<"add", pc[2] + 1>>

NextReflow == ClearJournalName \/ RemoveExtraLinesMain \/ AddMissingLinesMain

SpecReflow == InitReflow /\ [][NextReflow]_vars

-----------------------------------------------------------------------------
(* Reflow Engine: properties *)

\* A pass is about to run on an existing main text with orig_length equal
\* to the word count of that text.
ReflowPassStarts ==
    /\ pc[1] \in {"remove", "add"}
    /\ paper.main_text # None
    /\ files[paper.main_text] # NoFile
    /\ paper.main_text_length = Len(SplitWs(files[paper.main_text]))

\* C1: a reflow pass (remove_extra_lines_main or add_missing_lines_main)
\* called with orig_length equal to the word count of the text before it
\* leaves in the main_text file either a text whose word count c satisfies
\* 0.95*orig_length <= c <= 1.05*orig_length, or the text the file held
\* before the pass.
C1_ReflowGuard ==
    [][ReflowPassStarts
       => \/ files'["M"] = files["M"]
          \/ /\ 95 * paper.main_text_length <= 100 * Len(SplitWs(files'["M"]))
             /\ 100 * Len(SplitWs(files'["M"])) <= 105 * paper.main_text_length]_vars

\* A run in which a removal cycle joined two lines and lost a word (the
\* joined "ab" is in the file), a later removal cycle was refused for a
\* major change, and an addition cycle broke a line after a sentence end.
C1_Witness ==
    /\ pc[1] = "add"
    /\ pc[2] > 1
    /\ Find(files["M"], <<"a", "b">>) # -1
    /\ Find(files["M"], <<".", "\n", " ", "B">>) # -1
    /\ \E i \in 1..Len(log) : log[i] = "remove: major change"

\* The step rewrites the main text file with a different content.
MainRewritten == files'["M"] # NoFile /\ files'["M"] # files["M"]

\* The step is the last cycle of one of the two reflow stages of a paper
\* whose main text file exists.
StageEnds ==
    /\ pc[1] \in {"remove", "add"}
    /\ pc'[1] # pc[1]
    /\ paper.main_text # None
    /\ files'["M"] # NoFile

C16_FixedPointAfterSixCycles ==
    (pc = <<"add", 1>> /\ paper.main_text # None /\ files["M"] # NoFile)
        => remove_extra_lines_main(paper, paper.main_text_length, files).files = files

\* What the six cycles make of LongRun (the one text of 2^RemoveCycles + 1
\* words): no cycle is refused, two lines are left, and a further pass
\* joins them.
C16_LongRunLeftJoinable ==
    (pc = <<"add", 1>> /\ paper.main_text_length = 2^RemoveCycles + 1) =>
        /\ log = <<>>
        /\ Len(ReadLines(files["M"])) = 2
        /\ Len(ReadLines(RemovedLines(files["M"]))) = 1

\* The lines of the main text file.
MainLines == ReadLines(files["M"])

\* The lines before the first line that the joining loop does not keep as
\* it is are appended one by one, so the loop reaches that line with no
\* join behind it.
JoinAt == Min({i \in 1..Len(MainLines) : ~KeepsLine(RStrip(MainLines[i]))})

\* A joining cycle is about to run on a text in which that line exists and
\* has a successor.
HasJoinCandidate ==
    /\ pc[1] = "remove"
    /\ paper.main_text # None
    /\ files["M"] # NoFile
    /\ \E i \in 1..(Len(MainLines) - 1) : ~KeepsLine(RStrip(MainLines[i]))
    /\ JoinAt < Len(MainLines)

\* The successors the spec says end a paragraph: blank, title-case or
\* upper-case, mostly upper-case.
BreakSuccessor(next_line) ==
    \/ Strip(next_line) = <<>>
    \/ is_title_or_uppercase(Strip(next_line))
    \/ is_mostly_uppercase(Strip(next_line))

\* C17 as stated: a join candidate is never joined with a successor that
\* is blank, title-case or mostly upper-case: both lines are in the text
\* after the cycle as they were, with the line break between them.
C17_NoJoinIntoBreak ==
    [][(HasJoinCandidate /\ BreakSuccessor(MainLines[JoinAt + 1]))
          => /\ Len(ReadLines(files'["M"])) > JoinAt
             /\ ReadLines(files'["M"])[JoinAt] = MainLines[JoinAt]
             /\ ReadLines(files'["M"])[JoinAt + 1] = MainLines[JoinAt + 1]]_vars

\* The same for a successor that is not blank: it holds.
C17_TitleOrUpperKept ==
    [][(HasJoinCandidate /\ BreakSuccessor(MainLines[JoinAt + 1])
            /\ Strip(MainLines[JoinAt + 1]) # <<>>)
          => /\ Len(ReadLines(files'["M"])) > JoinAt
             /\ ReadLines(files'["M"])[JoinAt] = MainLines[JoinAt]
             /\ ReadLines(files'["M"])[JoinAt + 1] = MainLines[JoinAt + 1]]_vars

\* A blank successor is joined: where the cycle is not refused, the
\* candidate no longer stands on a line of its own.
C17_BlankJoined ==
    [][(HasJoinCandidate /\ Strip(MainLines[JoinAt + 1]) = <<>>
            /\ files'["M"] # files["M"])
          => /\ Len(ReadLines(files'["M"])) >= JoinAt
             /\ ReadLines(files'["M"])[JoinAt] # MainLines[JoinAt]]_vars

\* The line C18 describes for the join of A with B.
StatedJoin(A, B) ==
    IF RStrip(A)[Len(RStrip(A))] = "-"
    THEN SubSeq(RStrip(A), 1, Len(RStrip(A)) - 1) \o LStrip(B)
    ELSE RStrip(A) \o <<" ">> \o LStrip(B)

\* C18 as stated: when a cycle joins A with B, a final hyphen of A is
\* removed and B's text follows with no space; after a final comma, or any
\* other character, A and B's text are separated by exactly one space,
\* whether or not B begins with whitespace.
C18_JoinSeparator ==
    [][(HasJoinCandidate /\ ~BreakSuccessor(MainLines[JoinAt + 1])
            /\ files'["M"] # files["M"])
          => ReadLines(files'["M"])[JoinAt]
                 = StatedJoin(MainLines[JoinAt], MainLines[JoinAt + 1])]_vars

\* The same but for a comma before a line that begins with a space: it
\* holds.
C18_JoinSeparatorButCommaSpace ==
    [][(HasJoinCandidate /\ ~BreakSuccessor(MainLines[JoinAt + 1])
            /\ files'["M"] # files["M"]
            /\ ~(RStrip(MainLines[JoinAt])[Len(RStrip(MainLines[JoinAt]))] = ","
                    /\ MainLines[JoinAt + 1][1] = " "))
          => ReadLines(files'["M"])[JoinAt]
                 = StatedJoin(MainLines[JoinAt], MainLines[JoinAt + 1])]_vars

\* An addition cycle is about to run on a main text file that exists.
AddStarts == pc[1] = "add" /\ paper.main_text # None /\ files["M"] # NoFile

\* C19 as stated: the period that ends an abbreviation of the fixed set is
\* never a sentence boundary: no cycle puts a line break right after an
\* abbreviation ("Mr. B" stays on one line).
C19_NoBreakAfterAbbreviation ==
    [][AddStarts
          => \A abbrev \in Abbrevs :
                 Find(files'["M"], abbrev \o <<"\n">>) # -1
                     => Find(files["M"], abbrev \o <<"\n">>) # -1]_vars

\* What the test of line 1556 makes of every period of every text: the
\* slice it compares with an abbreviation is one character longer than the
\* abbreviation, and is_abbreviation is false.
C19_AbbreviationNeverFound ==
    (pc[1] = "add" /\ files["M"] # NoFile) =>
        \A k \in 1..Len(MainLines) : \A i \in 1..Len(MainLines[k]) :
            MainLines[k][i] = "." => ~is_abbreviation(MainLines[k], i - 1)

\* The first period of the line is not skipped, is not followed by digits,
\* and is followed by whitespace and then an upper-case letter; i is its
\* 1-based position.
SentenceEndAt(line, i) ==
    /\ Strip(line) # <<>>
    /\ FindFrom(line, ".", 0) = i - 1
    /\ ~is_abbreviation(line, i - 1)
    /\ ~is_special_v_case(line, i - 1)
    /\ NumberMatchEnd(line, i - 1) = 0
    /\ i < Len(line)
    /\ IsSpace(line[i + 1])
    /\ i + LeadWs(SubSeq(line, i + 1, Len(line))) < Len(line)
    /\ IsUpper(line[i + LeadWs(SubSeq(line, i + 1, Len(line))) + 1])

\* The line up to the upper-case letter, with the line break after the
\* whitespace.
BrokenAfterWhitespace(line, i) ==
    SubSeq(line, 1, i + LeadWs(SubSeq(line, i + 1, Len(line)))) \o <<"\n">>
        \o <<line[i + LeadWs(SubSeq(line, i + 1, Len(line))) + 1]>>

\* The same with the line break right after the period, before the
\* whitespace.
BrokenAfterPeriod(line, i) ==
    SubSeq(line, 1, i) \o <<"\n">>
        \o SubSeq(line, i + 1, i + LeadWs(SubSeq(line, i + 1, Len(line))) + 1)

\* C20 as stated: for a period that is not skipped and is followed by
\* whitespace and then an upper-case letter, the line break is inserted
\* after that whitespace, immediately before the upper-case letter, so the
\* new line starts with the upper-case letter.
C20_BreakAfterWhitespace ==
    [][AddStarts
          => \A k \in 1..Len(MainLines) : \A i \in 1..Len(MainLines[k]) :
                 SentenceEndAt(MainLines[k], i)
                     => Find(files'["M"], BrokenAfterWhitespace(MainLines[k], i)) # -1]_vars

\* C20, amended: the line break is inserted right after the period, before
\* the whitespace, so the new line starts with that whitespace, followed by
\* the upper-case letter.
C20_BreakAfterPeriod ==
    [][AddStarts
          => \A k \in 1..Len(MainLines) : \A i \in 1..Len(MainLines[k]) :
                 SentenceEndAt(MainLines[k], i)
                     => Find(files'["M"], BrokenAfterPeriod(MainLines[k], i)) # -1]_vars

\* The first addition cycle has broken the one line "c. B" after its
\* period: the second line is " B".
C20_Witness ==
    /\ pc = <<"add", 2>>
    /\ files["M"] = <<"c", ".", "\n", " ", "B", "\n">>

\* A joining cycle is about to run on a main text file that exists, with a
\* length that has been counted.
RemoveStarts ==
    /\ pc[1] = "remove"
    /\ paper.main_text # None
    /\ files["M"] # NoFile
    /\ paper.main_text_length # NoneNum

WithoutBreaks(text) == SelectSeq(text, LAMBDA c : c # "\n")

\* C29: a cycle of the sentence-splitting pass leaves the sequence of
\* whitespace-delimited words as it was and adds nothing but line breaks;
\* when the text has a word and orig_length is its true count, the output
\* is written and no major change is logged; the second and the third
\* cycle change nothing.
C29_AddPreservesWords ==
    [][AddStarts
          => /\ SplitWs(files'["M"]) = SplitWs(files["M"])
             /\ WithoutBreaks(files'["M"]) = WithoutBreaks(files["M"])
             /\ (paper.main_text_length = Len(SplitWs(files["M"]))
                    /\ paper.main_text_length > 0)
                   => /\ files'["M"] = AddedLines(files["M"])
                      /\ \A i \in (Len(log) + 1)..Len(log') : log'[i] # "add: major change"
             /\ pc[2] > 1 => files'["M"] = files["M"]]_vars

\* The three cycles have run on a text in which two lines had been joined
\* to "c. B c. B": it has a line break after either period, and its four
\* words have been counted again.
C29_Witness ==
    /\ pc = <<"done", 0>>
    /\ files["M"] = <<"c", ".", "\n", " ", "B", " ", "c", ".", "\n", " ", "B", "\n">>
    /\ paper.main_text_length = 4

-----------------------------------------------------------------------------
(* Line Detector: find_horizontal_lines.  An image is a sequence of rows of *)
(* <<R, G, B>> pixels; rows and columns are numbered from 0 as in the       *)
(* source, so pixel <<r, c>> is image_np[r + 1][c + 1].                     *)

\* binary_image: the pixels whose channel mean is below the threshold
\* ((R + G + B) / 3 < t, that is R + G + B < 3 * t).
binary_image(image_np, grayscale_threshold) ==
    {p \in (0..(Len(image_np) - 1)) \X (0..(Len(image_np[1]) - 1)) :
        image_np[p[1] + 1][p[2] + 1][1] + image_np[p[1] + 1][p[2] + 1][2]
            + image_np[p[1] + 1][p[2] + 1][3] < 3 * grayscale_threshold}

\* connectivity=2: two pixels touch by a side or by a corner.
Touch(p, q) ==
    /\ p # q
    /\ p[1] - q[1] <= 1 /\ q[1] - p[1] <= 1
    /\ p[2] - q[2] <= 1 /\ q[2] - p[2] <= 1

\* The connected region of ink that holds the pixels of S.
RECURSIVE RegionOf(_, _)
RegionOf(S, ink) ==
    LET grown == S \cup {q \in ink : \E p \in S : Touch(p, q)}
    IN  IF grown = S THEN S ELSE RegionOf(grown, ink)

\* The first pixel of a set in raster order.
FirstPixel(ink) ==
    CHOOSE p \in ink : \A q \in ink : p[1] < q[1] \/ (p[1] = q[1] /\ p[2] <= q[2])

\* measure.label / measure.regionprops: the regions, numbered in the raster
\* order of their first pixels.
RECURSIVE Regions(_)
Regions(ink) ==
    IF ink = {} THEN <<>>
    ELSE LET region == RegionOf({FirstPixel(ink)}, ink)
         IN  <<region>> \o Regions(ink \ region)

\* region.bbox: <<min_row, min_col, max_row, max_col>>, the maxima one past
\* the last row and column.
Bbox(region) ==
    <<Min({p[1] : p \in region}), Min({p[2] : p \in region}),
      Max({p[1] : p \in region}) + 1, Max({p[2] : p \in region}) + 1>>

\* The test of a region: height <= thickness_tolerance, length > min_length,
\* min_row > blindspot * image_height.  blindspot is in hundredths (0.33 is
\* 33), so the last comparison is made on both sides times 100.
IsLine(bbox, image_height, blindspot, thickness_tolerance, min_length) ==
    /\ bbox[3] - bbox[1] <= thickness_tolerance
    /\ bbox[4] - bbox[2] > min_length
    /\ bbox[1] * 100 > blindspot * image_height

\* The tuple (min_row, length) appended for a region.
LineOf(bbox) == <<bbox[1], bbox[4] - bbox[2]>>

\* The loop over props, given the bounding boxes in label order.
HorizontalLines(boxes, image_height, blindspot, thickness_tolerance, min_length) ==
    LET kept == SelectSeq(boxes, LAMBDA b : IsLine(b, image_height, blindspot,
                                                    thickness_tolerance, min_length))
    IN  [i \in 1..Len(kept) |-> LineOf(kept[i])]

\* find_horizontal_lines
find_horizontal_lines(current_page_num, image_np, blindspot, grayscale_threshold, thickness_tolerance, min_length) ==
    LET regions == Regions(binary_image(image_np, grayscale_threshold))
    IN  HorizontalLines([i \in 1..Len(regions) |-> Bbox(regions[i])], Len(image_np),
                        blindspot, thickness_tolerance, min_length)

-----------------------------------------------------------------------------
(* Zone Splitter and Document Assembler: fns_and_main_processing.  A PDF    *)
(* file is <<"%PDF">> followed by its pages; page k (from 0) is a record of *)
(* its rendered image, whether rendering and text extraction succeed, and   *)
(* its text items, each at a height y of the page.                          *)

\* The defaults of gen_fns_and_main_processing_with_timeout: blindspot_area
\* 0.33 (in hundredths), zoom_factor 2, line_grayscale_threshold 128.
BlindspotArea == 33
ZoomFactor == 2
GrayscaleThreshold == 128

\* len(pdf_document), pdf_document[k]
NumPages(pdf) == Len(pdf) - 1
PageOf(pdf, k) == pdf[k + 2]

\* page.get_text("text", clip=Rect(0, lo / zoom, width, hi / zoom)): the
\* items at heights y with lo / zoom <= y < hi / zoom.
GetTextClip(page, lo, hi, zoom) ==
    Concat([i \in 1..Len(SelectSeq(page.text, LAMBDA t : lo <= t.y * zoom /\ t.y * zoom < hi))
              |-> SelectSeq(page.text, LAMBDA t : lo <= t.y * zoom /\ t.y * zoom < hi)[i].s])

\* page.get_text()
GetText(page) == Concat([i \in 1..Len(page.text) |-> page.text[i].s])

\* A plausible slip: the first line found is taken.
LongestLine_First(horizontal_lines) == horizontal_lines[1]

\* max(horizontal_lines, key=lambda x: x[1]): the first line of the greatest
\* length.
LongestLine(horizontal_lines) ==
    horizontal_lines[Min({i \in 1..Len(horizontal_lines) :
                             \A j \in 1..Len(horizontal_lines) :
                                 horizontal_lines[j][2] <= horizontal_lines[i][2]})]

\* A plausible slip: the blind spot is applied on every page.
PageBlindspot_EveryPage(current_page_num, blindspot_area) == blindspot_area

\* blindspot_area if current_page_num == 1 else 0
PageBlindspot(current_page_num, blindspot_area) ==
    IF current_page_num = 1 THEN blindspot_area ELSE 0

\* A plausible slip: a page without a separating line gives no main text.
NoLineText_Dropped(page) == <<>>

\* The inner try of the branch without a separating line: the text of the
\* whole page, or a line break when get_text raises.
NoLineText(page) == IF page.readable THEN GetText(page) ELSE <<"\n">>

\* A plausible slip: the fragments are joined with line breaks.
MergedText_Lines(complete_text) == Join(complete_text, "\n")

\* "".join(complete_main_text), "".join(complete_fns_text)
MergedText(complete_text) == Concat(complete_text)

\* The except branch of fns_and_main_processing: both paths None, one entry.
Aborted(c, lg) ==
    [pc  |-> [c EXCEPT !.at = "return", !.main_txt_path = None, !.fns_txt_path = None],
     log |-> log_error(lg, "ERROR: Could not open/read PDF")]

\* The body of the page loop for one page, given the lines found on it.
PageBody(c, lg, page, horizontal_lines) ==
    IF horizontal_lines = <<>>
    THEN [pc  |-> [c EXCEPT !.current_page_num = @ + 1,
                            !.horizontal_lines = horizontal_lines,
                            !.complete_main_text = Append(@, NoLineText(page))],
          log |-> log_error(lg, "ATTENTION: No separating line found on page "
                                    \o ToString(c.current_page_num + 1))]
    ELSE IF ~page.readable THEN Aborted(c, lg)
    ELSE [pc  |-> [c EXCEPT !.current_page_num = @ + 1,
                            !.horizontal_lines = horizontal_lines,
                            !.complete_main_text =
                                Append(@, GetTextClip(page, 0, LongestLine(horizontal_lines)[1],
                                                      c.zoom)),
                            !.complete_fns_text =
                                Append(@, GetTextClip(page, LongestLine(horizontal_lines)[1],
                                                      page.height * c.zoom, c.zoom))],
          log |-> lg]

\* One iteration of the page loop: get_pixmap may raise.
PageStep(c, lg, page) ==
    IF ~page.renders THEN Aborted(c, lg)
    ELSE PageBody(c, lg, page,
                  find_horizontal_lines(c.current_page_num, page.image,
                                        PageBlindspot(c.current_page_num, c.blindspot_area),
                                        c.grayscale_threshold, c.thickness_tolerance,
                                        c.min_length))

-----------------------------------------------------------------------------
(* The page specification: one paper's PDF through fns_and_main_processing, *)
(* one page of the loop per step, and the assignments that                  *)
(* gen_fns_and_main_processing_with_timeout makes from its result.          *)

\* The most pages of an enumerated PDF, the title page included.
MaxPages == 4
\* The rows of a rendered page image.
ImageRows == 4
\* The largest line_thickness_tolerance passed, and the minimal_length.
MaxThickness == 1
MinimalLength == 1

Black == <<0, 0, 0>>
White == <<255, 255, 255>>
\* Greys on either side of the threshold: channel sums 383 and 384.
DarkGrey == <<128, 128, 127>>
MidGrey == <<128, 128, 128>>

\* The rows the enumerated images are built from, three pixels wide: blank,
\* a rule of full width, a rule of two pixels, a single pixel at the right.
RowPatterns ==
    {<<White, White, White>>, <<Black, Black, Black>>, <<Black, Black, White>>,
     <<White, White, Black>>}

Images == [1..ImageRows -> RowPatterns]

\* The image that is blank but for one row.
OneRow(r, row) == [i \in 1..ImageRows |-> IF i = r + 1 THEN row ELSE <<White, White, White>>]

\* The text items of page k: one word and a line break at each height.
TextItems(k, height) ==
    [i \in 1..height |->
        [y |-> i - 1, s |-> <<"p" \o ToString(k) \o "y" \o ToString(i - 1), "\n">>]]

\* Page k with the given image, rendered at ZoomFactor.
PageWith(k, image) ==
    [image |-> image, height |-> ImageRows \div ZoomFactor, renders |-> TRUE,
     readable |-> TRUE, text |-> TextItems(k, ImageRows \div ZoomFactor)]

\* The other pages of the enumerated PDFs: (1) no rule; (2) a dark grey rule
\* at row 2 over a mid grey row; (3) a rule at row 1, inside the blind spot
\* of a first page; (4) no rule and get_text raises; (5) get_pixmap raises;
\* (6) a blank page, with no text.
PageKinds == 1..6
PageOfKind(k, kind) ==
    CASE kind = 1 -> PageWith(k, OneRow(0, <<White, White, White>>))
      [] kind = 2 -> PageWith(k, [OneRow(2, <<DarkGrey, DarkGrey, DarkGrey>>)
                                     EXCEPT ![1] = <<MidGrey, MidGrey, MidGrey>>])
      [] kind = 3 -> PageWith(k, OneRow(1, <<Black, Black, Black>>))
      [] kind = 4 -> [PageWith(k, OneRow(0, <<White, White, White>>)) EXCEPT !.readable = FALSE]
      [] kind = 5 -> [PageWith(k, OneRow(2, <<Black, Black, Black>>)) EXCEPT !.renders = FALSE]
      [] kind = 6 -> [PageWith(k, OneRow(0, <<White, White, White>>)) EXCEPT !.text = <<>>]

\* The PDFs of n pages: a title page with a rule and text, then either
\* pages of the kinds above, or pages of kind 1 but for one page with an
\* image of Images.
Documents(n) ==
    {<<"%PDF", PageWith(0, OneRow(2, <<Black, Black, Black>>))>>
        \o [k \in 1..(n - 1) |-> PageOfKind(k, kinds[k])] : kinds \in [1..(n - 1) -> PageKinds]}
    \cup
    {<<"%PDF", PageWith(0, OneRow(2, <<Black, Black, Black>>))>>
        \o [k \in 1..(n - 1) |-> IF k = vi[1] THEN PageWith(k, vi[2]) ELSE PageOfKind(k, 1)] :
        vi \in (1..(n - 1)) \X Images}

\* The locals of fns_and_main_processing at its start, with its arguments.
StartOf(thickness_tolerance, min_length) ==
    [at |-> "start", current_page_num |-> 1, horizontal_lines |-> <<>>,
     complete_main_text |-> <<>>, complete_fns_text |-> <<>>,
     main_txt_path |-> None, fns_txt_path |-> None,
     blindspot_area |-> BlindspotArea, zoom |-> ZoomFactor,
     grayscale_threshold |-> GrayscaleThreshold,
     thickness_tolerance |-> thickness_tolerance, min_length |-> min_length]

InitPages ==
    /\ \/ \E n \in 1..MaxPages : \E pdf \in Documents(n) :
            /\ files = [NoFiles EXCEPT !["PDF"] = pdf]
            /\ paper = [NewPaper EXCEPT !.PDF = "PDF", !.full_text = "T"]
       \/ /\ files \in {NoFiles, [NoFiles EXCEPT !["PDF"] = <<"%PDF", PageOfKind(0, 1), PageOfKind(1, 2)>>]}
          /\ paper \in {NewPaper, [NewPaper EXCEPT !.full_text = "T"],
                        [NewPaper EXCEPT !.PDF = "PDF"],
                        [NewPaper EXCEPT !.PDF = "PDF", !.full_text = "T"]}
    /\ log = <<>>
    /\ \E thickness_tolerance \in 1..MaxThickness :
            pc = StartOf(thickness_tolerance, MinimalLength)

\* The start of fns_and_main_processing, up to the page loop.  Building the
\* log entry from a full_text of None raises TypeError: outside the try when
\* PDF is None, inside it otherwise.
OpenPdf ==
    /\ pc.at = "start"
    /\ IF paper.PDF = None
       THEN IF paper.full_text = None
            THEN pc' = [pc EXCEPT !.at = "raised"] /\ log' = log
            ELSE /\ pc' = [pc EXCEPT !.at = "return"]
                 /\ log' = log_error(log, "Error: PDF attribute is None")
       ELSE IF files[paper.PDF] = NoFile \/ paper.full_text = None
            THEN pc' = Aborted(pc, log).pc /\ log' = Aborted(pc, log).log
            ELSE /\ pc' = [pc EXCEPT !.at = "page"]
                 /\ log' = log_error(log, "Currently processing file")
    /\ UNCHANGED <<paper, files>>

\* One iteration of the loop over pages 1 .. num_pages - 1.
ProcessPage ==
    /\ pc.at = "page"
    /\ pc.current_page_num < NumPages(files[paper.PDF])
    /\ LET r == PageStep(pc, log, PageOf(files[paper.PDF], pc.current_page_num))
       IN  pc' = r.pc /\ log' = r.log
    /\ UNCHANGED <<paper, files>>

\* After the loop: both paths are set and the main text file is written.
WriteMain ==
    /\ pc.at = "page"
    /\ pc.current_page_num >= NumPages(files[paper.PDF])
    /\ files' = [files EXCEPT !["M"] = MergedText(pc.complete_main_text)]
    /\ pc' = [pc EXCEPT !.at = "write_fns", !.main_txt_path = "M", !.fns_txt_path = "FN"]
    /\ UNCHANGED <<paper, log>>

\* The footnote text file is written and the end of the processing logged.
WriteFns ==
    /\ pc.at = "write_fns"
    /\ files' = [files EXCEPT !["FN"] = MergedText(pc.complete_fns_text)]
    /\ log' = log_error(log, "Finished processing Main and FNs text")
    /\ pc' = [pc EXCEPT !.at = "return"]
    /\ UNCHANGED paper

\* gen_fns_and_main_processing_with_timeout: the paths returned and the two
\* word counts are recorded in the paper.
RecordPaths ==
    /\ pc.at = "return"
    /\ paper' = [paper EXCEPT !.main_text = pc.main_txt_path,
                              !.fns_text = pc.fns_txt_path,
                              !.main_text_length = count_words_in_file(files, pc.main_txt_path),
                              !.fns_text_length = count_words_in_file(files, pc.fns_txt_path)]
    /\ log' = log \o CountLog(files, pc.main_txt_path) \o CountLog(files, pc.fns_txt_path)
    /\ pc' = [pc EXCEPT !.at = "done"]
    /\ UNCHANGED files

NextPages == OpenPdf \/ ProcessPage \/ WriteMain \/ WriteFns \/ RecordPaths

SpecPages == InitPages /\ [][NextPages]_vars

-----------------------------------------------------------------------------
(* Line Detector, Zone Splitter, Document Assembler: properties *)

\* The page the loop is about to process, and the lines the detector returns
\* for it.
NextPage == PageOf(files[paper.PDF], pc.current_page_num)
NextPageLines ==
    find_horizontal_lines(pc.current_page_num, NextPage.image,
                          PageBlindspot(pc.current_page_num, pc.blindspot_area),
                          pc.grayscale_threshold, pc.thickness_tolerance, pc.min_length)

\* The loop is about to process a page that renders and on which the
\* detector returns no candidate.
NoSeparatorPageStarts ==
    /\ pc.at = "page"
    /\ pc.current_page_num < NumPages(files[paper.PDF])
    /\ NextPage.renders
    /\ NextPageLines = <<>>

\* The attention note of the page the loop is about to process.
AttentionNote ==
    "ATTENTION: No separating line found on page " \o ToString(pc.current_page_num + 1)

\* C8 as stated: for every processed page on which the line detector
\* returns no candidate, the page's whole extractable text (nothing, when
\* the extraction fails) is appended to the main stream and nothing to the
\* footnote stream; the event is logged as an attention note and the
\* document is not aborted.
C8_WholeTextToMain ==
    [][NoSeparatorPageStarts
       => /\ pc'.at = "page"
          /\ pc'.current_page_num = pc.current_page_num + 1
          /\ pc'.complete_main_text =
                 Append(pc.complete_main_text,
                        IF NextPage.readable THEN GetText(NextPage) ELSE <<>>)
          /\ pc'.complete_fns_text = pc.complete_fns_text
          /\ log' = Append(log, AttentionNote)]_vars

\* C8, amended: for every processed page on which the line detector returns
\* no candidate, the page's whole extractable text, or a single line break
\* when extracting the page's text fails, is appended to the main stream and
\* nothing to the footnote stream; the event is logged as an attention note
\* and the document is not aborted.
C8_WholeTextOrPlaceholder ==
    [][NoSeparatorPageStarts
       => /\ pc'.at = "page"
          /\ pc'.current_page_num = pc.current_page_num + 1
          /\ pc'.complete_main_text =
                 Append(pc.complete_main_text,
                        IF NextPage.readable THEN GetText(NextPage) ELSE <<"\n">>)
          /\ pc'.complete_fns_text = pc.complete_fns_text
          /\ log' = Append(log, AttentionNote)]_vars

\* Two pages without a separator have been processed, the first with the
\* placeholder and the second with its whole text, each with its note.
C8_Witness ==
    /\ pc.at = "page"
    /\ pc.current_page_num = 3
    /\ pc.horizontal_lines = <<>>
    /\ pc.complete_main_text = <<<<"\n">>, <<"p2y0", "\n", "p2y1", "\n">>>>
    /\ pc.complete_fns_text = <<>>
    /\ Len(log) = 3

\* The separator of page k of the PDF, as the detector and the choice of the
\* longest line give it: <<row, length>>, or <<>> when there is none.
SeparatorOf(k) ==
    LET lines == find_horizontal_lines(k, PageOf(files[paper.PDF], k).image,
                                       PageBlindspot(k, pc.blindspot_area),
                                       pc.grayscale_threshold, pc.thickness_tolerance,
                                       pc.min_length)
    IN  IF lines = <<>> THEN <<>> ELSE LongestLine(lines)

\* The text items of a page above (strictly) and below a row of its image
\* divided by the zoom.
AboveRule(page, row) ==
    Concat([i \in 1..Len(page.text) |->
               IF page.text[i].y * pc.zoom < row THEN page.text[i].s ELSE <<>>])
BelowRule(page, row) ==
    Concat([i \in 1..Len(page.text) |->
               IF page.text[i].y * pc.zoom >= row THEN page.text[i].s ELSE <<>>])

\* The main fragment of a page with the separator sep (<<>> when it has
\* none) as C9 states it, and as amended; its footnote fragment.
MainFragmentStated(page, sep) ==
    IF sep # <<>> THEN AboveRule(page, sep[1])
    ELSE IF page.readable THEN GetText(page) ELSE <<>>
MainFragment(page, sep) ==
    IF sep # <<>> THEN AboveRule(page, sep[1])
    ELSE IF page.readable THEN GetText(page) ELSE <<"\n">>
FnsFragment(page, sep) == IF sep # <<>> THEN BelowRule(page, sep[1]) ELSE <<>>

\* The separators of pages 1 .. n-1.
Separators == [k \in 1..(NumPages(files[paper.PDF]) - 1) |-> SeparatorOf(k)]

\* The main text file has been written; both files have been written.
MainWritten == pc.at \in {"write_fns", "return", "done"} /\ pc.main_txt_path # None
BothWritten == pc.at \in {"return", "done"} /\ pc.fns_txt_path # None

\* C9 as stated: the written main stream is the concatenation, for pages
\* 1..n-1 in increasing order, of the page's main fragment (its full text if
\* it has no separator, else the text above the rule); the written footnote
\* stream is the concatenation in the same order of the below-rule
\* fragments; page 0 contributes to neither.
C9_StreamsInPageOrder ==
    LET seps == Separators
    IN  /\ MainWritten =>
              files["M"] = Concat([k \in 1..Len(seps) |->
                                      MainFragmentStated(PageOf(files[paper.PDF], k), seps[k])])
        /\ BothWritten =>
              files["FN"] = Concat([k \in 1..Len(seps) |->
                                       FnsFragment(PageOf(files[paper.PDF], k), seps[k])])

\* C9, amended: as stated, but the main fragment of a page without a
\* separator is a single line break when extracting the page's text fails.
C9_StreamsWithPlaceholder ==
    LET seps == Separators
    IN  /\ MainWritten =>
              files["M"] = Concat([k \in 1..Len(seps) |->
                                      MainFragment(PageOf(files[paper.PDF], k), seps[k])])
        /\ BothWritten =>
              files["FN"] = Concat([k \in 1..Len(seps) |->
                                       FnsFragment(PageOf(files[paper.PDF], k), seps[k])])

\* Both files of a three-page PDF are written: page 1 gave the placeholder,
\* page 2 was cut at its rule, and nothing of the title page is in a file.
C9_Witness ==
    /\ BothWritten
    /\ files["M"] = <<"\n", "p2y0", "\n">>
    /\ files["FN"] = <<"p2y1", "\n">>

\* The connected regions of a set of ink pixels, as a set.
RegionsOf(ink) == {RegionOf({p}, ink) : p \in ink}

\* The top row, the row span and the column span of a region.
TopRow(region) == Min({p[1] : p \in region})
RowSpan(region) == Cardinality({p[1] : p \in region})
ColSpan(region) == Cardinality({p[2] : p \in region})

\* The page just processed and the hundredths of its height that the claim
\* lets the detector ignore: the blind spot on page 1, nothing later.
LastPageNum == pc.current_page_num - 1
Cutoff == IF LastPageNum = 1 THEN pc.blindspot_area ELSE 0

\* C10: every candidate find_horizontal_lines returned for the page just
\* processed is the (top row, column span) of a region of row span
\* <= thickness_tolerance, column span > min_length and top row below
\* blindspot * image_height, where blindspot is the blind-spot fraction on
\* page 1 and 0 on every later page: there, every region of such spans with
\* a top row below row 0 is returned.
C10_Candidates ==
    (pc.at = "page" /\ LastPageNum >= 1) =>
        LET image   == PageOf(files[paper.PDF], LastPageNum).image
            regions == RegionsOf(binary_image(image, pc.grayscale_threshold))
        IN  /\ \A i \in 1..Len(pc.horizontal_lines) :
                   \E region \in regions :
                       /\ pc.horizontal_lines[i] = <<TopRow(region), ColSpan(region)>>
                       /\ RowSpan(region) <= pc.thickness_tolerance
                       /\ ColSpan(region) > pc.min_length
                       /\ TopRow(region) * 100 > Cutoff * Len(image)
            /\ LastPageNum > 1 =>
                   \A region \in regions :
                       (/\ RowSpan(region) <= pc.thickness_tolerance
                        /\ ColSpan(region) > pc.min_length
                        /\ TopRow(region) > 0)
                       => \E i \in 1..Len(pc.horizontal_lines) :
                              pc.horizontal_lines[i] = <<TopRow(region), ColSpan(region)>>

\* Page 2 has just been processed and two candidates were returned for it,
\* one of them with its top row inside what is the blind spot on page 1.
C10_Witness ==
    /\ pc.at = "page"
    /\ LastPageNum = 2
    /\ Len(pc.horizontal_lines) = 2
    /\ \E i \in 1..2 :
           /\ pc.horizontal_lines[i][1] > 0
           /\ pc.horizontal_lines[i][1] * 100 <= pc.blindspot_area * ImageRows

\* The loop is about to process a page that renders, whose text can be
\* extracted, and on which the detector returns one candidate or more.
SeparatorPageStarts ==
    /\ pc.at = "page"
    /\ pc.current_page_num < NumPages(files[paper.PDF])
    /\ NextPage.renders
    /\ NextPage.readable
    /\ NextPageLines # <<>>

\* C22: when a page has one or more candidates, the separator used is a
\* candidate at least as long as every other candidate of the page; the
\* split coordinate is its pixel row divided by the zoom factor (an item at
\* height y is above it when y * zoom < row); the text above it is appended
\* to the main stream and the text at or below it to the footnote stream.
C22_LongestSeparator ==
    [][SeparatorPageStarts
       => \E i \in 1..Len(NextPageLines) :
              /\ \A j \in 1..Len(NextPageLines) : NextPageLines[j][2] <= NextPageLines[i][2]
              /\ pc'.complete_main_text =
                     Append(pc.complete_main_text, AboveRule(NextPage, NextPageLines[i][1]))
              /\ pc'.complete_fns_text =
                     Append(pc.complete_fns_text, BelowRule(NextPage, NextPageLines[i][1]))
              /\ log' = log]_vars

\* A page with a rule of two pixels at row 1 and a longer one at row 3 has
\* been split at row 3: both of its text items went to the main stream.
C22_Witness ==
    /\ pc.at = "page"
    /\ pc.horizontal_lines = <<<<1, 2>>, <<3, 3>>>>
    /\ Len(pc.complete_main_text[Len(pc.complete_main_text)]) = 4
    /\ pc.complete_fns_text[Len(pc.complete_fns_text)] = <<>>

-----------------------------------------------------------------------------
(* The batch specification: gen_fns_and_main_processing_with_timeout over a *)
(* list of papers.  For each paper fns_and_main_processing runs in a child  *)
(* process, one step of it at a time, while the parent waits in             *)
(* proc.join(timeout); the timeout may elapse at any step of the child.    *)
(* pc holds the child's locals, the result queue, the papers still to come  *)
(* (each with the files it finds) and the index of the current paper.       *)

\* The most papers of an enumerated batch.
MaxBatch == 2

\* The PDFs of the enumerated papers: a title page and a page with a rule;
\* the same with a page without a rule in between; a page that does not
\* render.
BatchPdfs ==
    {<<"%PDF", PageOfKind(0, 1), PageOfKind(1, 2)>>,
     <<"%PDF", PageOfKind(0, 1), PageOfKind(1, 1), PageOfKind(2, 2)>>,
     <<"%PDF", PageOfKind(0, 1), PageOfKind(1, 5)>>}

\* The enumerated papers, each with its files: one for each PDF; one whose
\* PDF file is missing; one without a PDF; one without PDF and full_text.
BatchPapers ==
    {[paper |-> [NewPaper EXCEPT !.PDF = "PDF", !.full_text = "T", !.journal = <<"p1y0">>],
      files |-> [NoFiles EXCEPT !["PDF"] = pdf]] : pdf \in BatchPdfs}
    \cup
    {[paper |-> [NewPaper EXCEPT !.PDF = "PDF", !.full_text = "T"], files |-> NoFiles],
     [paper |-> [NewPaper EXCEPT !.full_text = "T"], files |-> NoFiles],
     [paper |-> NewPaper, files |-> NoFiles]}

\* The state of the parent and the child when proc.start() has been called
\* for the paper of the given index; children holds the indices of the
\* papers whose child process is alive.
ChildStarted(papers, index) ==
    [StartOf(1, MinimalLength) EXCEPT !.at = "start"]
        @@ [queue |-> <<>>, papers |-> papers, index |-> index, children |-> {index}]

InitBatch ==
    \E n \in 1..MaxBatch : \E batch \in [1..n -> BatchPapers] :
        /\ paper = batch[1].paper
        /\ files = batch[1].files
        /\ log = <<>>
        /\ pc = ChildStarted(Tail(batch), 1)

\* The positions of a child that is_alive() finds alive.
ChildAlive == pc.at \in {"start", "page", "write_fns", "return", "raised"}

\* The write of the footnote text file raises: the except branch of
\* fns_and_main_processing unsets both paths and logs.
WriteFnsRaises ==
    /\ pc.at = "write_fns"
    /\ pc' = Aborted(pc, log).pc
    /\ log' = Aborted(pc, log).log
    /\ UNCHANGED <<paper, files>>

\* process_wrapper: queue.put(result), and the child process ends.
PutResult ==
    /\ pc.at = "return"
    /\ pc' = [pc EXCEPT !.at = "exited", !.queue = <<<<pc.main_txt_path, pc.fns_txt_path>>>>,
                        !.children = @ \ {pc.index}]
    /\ UNCHANGED <<paper, files, log>>

\* An exception that leaves fns_and_main_processing ends the child with
\* nothing put on the queue.
ChildDies ==
    /\ pc.at = "raised"
    /\ pc' = [pc EXCEPT !.at = "died", !.children = @ \ {pc.index}]
    /\ UNCHANGED <<paper, files, log>>

\* A plausible slip: the paths are left as the terminated child had them.
Terminated_PathsKept(c) == [c EXCEPT !.at = "timed_out", !.children = @ \ {c.index}]

\* A plausible slip: the supervisor returns on timeout without terminating
\* the child.
Terminated_ChildLeft(c) ==
    [c EXCEPT !.at = "timed_out", !.main_txt_path = None, !.fns_txt_path = None]

\* The locals once the child is terminated (proc.terminate(), proc.join()):
\* main_txt_path = fns_txt_path = None.
Terminated(c) ==
    [c EXCEPT !.at = "timed_out", !.main_txt_path = None, !.fns_txt_path = None,
              !.children = @ \ {c.index}]

\* proc.join(timeout) returns with the child alive: it is terminated, the
\* timeout is logged and both paths are None.
Timeout ==
    /\ ChildAlive
    /\ pc' = Terminated(pc)
    /\ log' = log_error(log, "TIMEOUT ERROR")
    /\ UNCHANGED <<paper, files>>

\* The child has ended: result_queue.get() takes its result.  It blocks
\* while the queue is empty.
GetResult ==
    /\ pc.at = "exited"
    /\ pc.queue # <<>>
    /\ pc' = [pc EXCEPT !.at = "got", !.queue = Tail(@),
                        !.main_txt_path = pc.queue[1][1], !.fns_txt_path = pc.queue[1][2]]
    /\ UNCHANGED <<paper, files, log>>

\* The batch loop records the paths returned and the two word counts.
AssignPaths ==
    /\ pc.at \in {"timed_out", "got"}
    /\ paper' = [paper EXCEPT !.main_text = pc.main_txt_path,
                              !.fns_text = pc.fns_txt_path,
                              !.main_text_length = count_words_in_file(files, pc.main_txt_path),
                              !.fns_text_length = count_words_in_file(files, pc.fns_txt_path)]
    /\ log' = log \o CountLog(files, pc.main_txt_path) \o CountLog(files, pc.fns_txt_path)
    /\ pc' = [pc EXCEPT !.at = "clear"]
    /\ UNCHANGED files

\* The batch loop calls clear_journal_name.
ClearJournalNameOfBatch ==
    /\ pc.at = "clear"
    /\ paper' = clear_journal_name(paper, files).paper
    /\ files' = clear_journal_name(paper, files).files
    /\ log' = log \o clear_journal_name(paper, files).log
    /\ pc' = [pc EXCEPT !.at = "next"]

\* The loop goes on to the next paper of the list, or ends.
NextPaper ==
    /\ pc.at = "next"
    /\ IF pc.papers = <<>>
       THEN /\ pc' = [pc EXCEPT !.at = "end"]
            /\ UNCHANGED <<paper, files>>
       ELSE /\ paper' = pc.papers[1].paper
            /\ files' = pc.papers[1].files
            /\ pc' = [ChildStarted(Tail(pc.papers), pc.index + 1)
                          EXCEPT !.children = @ \cup pc.children]
    /\ UNCHANGED log

NextBatch ==
    \/ OpenPdf \/ ProcessPage \/ WriteMain \/ WriteFns \/ WriteFnsRaises
    \/ PutResult \/ ChildDies \/ Timeout \/ GetResult
    \/ AssignPaths \/ ClearJournalNameOfBatch \/ NextPaper

SpecBatch == InitBatch /\ [][NextBatch]_vars

\* The same, with the parent going on whenever it can: result_queue.get()
\* returns when the queue holds a result, and once
\* fns_and_main_processing_with_timeout has returned, the statements of the
\* loop body follow one another.
SpecBatchFair ==
    SpecBatch /\ WF_vars(GetResult) /\ WF_vars(AssignPaths)
        /\ WF_vars(ClearJournalNameOfBatch) /\ WF_vars(NextPaper)

-----------------------------------------------------------------------------
(* Supervisor and batch loop: properties *)

\* The step is the timeout of a paper whose child has not finished.
TimeoutElapses == ChildAlive /\ pc'.at = "timed_out"

\* C11: when the child has not finished as the timeout elapses,
\* fns_and_main_processing_with_timeout returns both paths unset and
\* appends a timeout entry to the log; the batch loop, with no exception
\* in between, records main_text and fns_text as unset for that paper and
\* goes on to the next paper (or ends after the last one).
C11_TimeoutRecorded ==
    /\ [][TimeoutElapses => /\ pc'.main_txt_path = None
                            /\ pc'.fns_txt_path = None
                            /\ log' = Append(log, "TIMEOUT ERROR")]_vars
    /\ [][pc.at = "timed_out" => /\ pc'.at = "clear"
                                 /\ paper'.main_text = None
                                 /\ paper'.fns_text = None]_vars
    /\ \A k \in 1..MaxBatch :
           (pc.at = "timed_out" /\ pc.index = k)
               ~> (pc.at = "next" /\ pc.index = k
                      /\ paper.main_text = None /\ paper.fns_text = None)
    /\ \A k \in 1..MaxBatch :
           (pc.at = "next" /\ pc.index = k) ~> (pc.at = "end" \/ pc.index = k + 1)

\* The first paper was terminated on timeout after its main text file was
\* written and its paths set; it is recorded without paths and the child of
\* the second paper is at work.
C11_Witness ==
    /\ pc.index = 2
    /\ pc.at = "page"
    /\ Len(log) >= 2
    /\ log[1] = "Currently processing file"
    /\ log[2] = "TIMEOUT ERROR"

\* The assembly of the current paper has ended with both outputs unset.
AssemblyEndedUnset ==
    /\ pc.at \in {"timed_out", "got"}
    /\ pc.main_txt_path = None
    /\ pc.fns_txt_path = None

\* C12 as stated: whenever the assembly of a document ends with its outputs
\* unset (the PDF cannot be opened, an exception occurs while processing
\* pages or writing, or the child is killed on timeout), neither the main
\* text file nor the footnote text file of that document has been written
\* by that run.
C12_AllOrNothing ==
    AssemblyEndedUnset => files["M"] = NoFile /\ files["FN"] = NoFile

\* What does hold: an abort before the page loop has ended (no PDF, a PDF
\* that cannot be opened, an exception on a page) has written no file.
C12_AbortBeforeWriting ==
    [][(pc.at \in {"start", "page"} /\ pc'.at = "return" /\ pc'.main_txt_path = None)
          => files' = files /\ files["M"] = NoFile /\ files["FN"] = NoFile]_vars

\* C25 as stated: fns_and_main_processing_with_timeout always returns.  A
\* child that hangs is terminated on timeout (C11); for a child that has
\* ended, having put its result or not, the supervisor comes back from
\* result_queue.get() with the paths.
C25_SupervisorReturns ==
    \A k \in 1..MaxBatch :
        (pc.index = k /\ pc.at \in {"exited", "died"}) ~> (pc.index = k /\ pc.at = "got")

\* What does hold: it returns when the child has put its result.
C25_ReturnsAfterPut ==
    \A k \in 1..MaxBatch :
        (pc.index = k /\ pc.at = "exited") ~> (pc.index = k /\ pc.at = "got")

\* A child that ended with an exception has put nothing on the queue, and
\* no step of the parent or of a child follows: the batch stays at this
\* paper.
C25_BlockedAfterChildDied ==
    [][pc.at = "died" => FALSE]_vars /\ [](pc.at = "died" => pc.queue = <<>>)

\* fns_and_main_processing_with_timeout has returned for the current paper.
SupervisorReturned == pc.at \in {"timed_out", "got", "clear", "next", "end"}

\* C26: at every point of a batch run at most one child process is alive,
\* the child found alive is that of the current paper, and once
\* fns_and_main_processing_with_timeout has returned no child is alive, so
\* the files change only by a step of the current paper's own child or of
\* the batch loop.
C26_OneChildAlive ==
    /\ [](Cardinality(pc.children) <= 1)
    /\ [](ChildAlive <=> pc.index \in pc.children)
    /\ [](SupervisorReturned => pc.children = {})
    /\ [][files' # files => \/ pc.children = {pc.index}
                            \/ pc.at \in {"clear", "next"}]_vars

\* The child of the first paper was terminated on timeout, and the child
\* of the second paper, the only one alive, has written its main text
\* file.
C26_Witness ==
    /\ pc.index = 2
    /\ pc.at = "write_fns"
    /\ pc.children = {2}
    /\ \E i \in 1..Len(log) : log[i] = "TIMEOUT ERROR"

====
